---- MODULE Spec2Model ----
(***************************************************************************)
(* Memory orchestration of Vexa: the live conversation window, automatic   *)
(* archival (Orchestrator._archive_if_needed), the process_prompt cycle    *)
(* and manual archival (/memory-force).                                    *)
(*                                                                         *)
(* Lists are TLA+ sequences (1-based); the Python indices of the source    *)
(* (0-based, half-open slices) are kept in the variables and converted by  *)
(* Slice, LastN and DelSlice.                                              *)
(***************************************************************************)
EXTENDS Integers, Sequences, FiniteSets, TLC

\* ------------------------------------------------------------------ bounds
MaxTurns == 4      \* process_prompt calls explored
MaxChunk == 3      \* chunk_size ranges over 1..MaxChunk
MaxMax == 5        \* max_conversation ranges over 2..MaxMax
MaxManual == 1     \* memory commands explored

\* --------------------------------------------------------------- constants
KeepLast == 5      \* /memory-force keeps the last 5 messages
recall_top_k == 1  \* OrchestratorConfig.recall_top_k (5 by default, 1 here)

VARIABLES
    conversation,      \* app.conversation
    records,           \* the store's collection, in insertion order
    chunk_size,        \* Orchestrator.chunk_size
    max_conversation,  \* Orchestrator.max_conversation
    memory_enabled,    \* Orchestrator.memory_enabled
    mem,               \* Orchestrator.mem is not None
    summarizer,        \* Orchestrator.summarizer is not None
    configured,        \* memory.enabled of the settings read by __init__
    store_ok,          \* ShortTermMemory(...) did not raise in __init__
    has_orchestrator,  \* app.orchestrator exists and is not None
    system_prompt,     \* app.system_prompt
    command,           \* the last command since the last cycle
    pc,                \* position of the process_prompt cycle
    user_input,        \* the prompt of the cycle in flight (0: none)
    end_idx,           \* _archive_if_needed local
    chunk_to_archive,  \* _archive_if_needed local
    recalled,          \* process_prompt local: indices of the recalled records
    messages,          \* process_prompt local: the outgoing payload
    mpc,               \* position of the /memory-force worker
    messages_to_archive, \* cmd_memory_force local
    archive_end,       \* cmd_memory_force local
    m_convo,           \* cmd_memory_force local: the list captured as convo
    m_pre,             \* conversation when the last /memory-force was entered
    m_pre_records,     \* the store's records when it was entered
    shown,             \* results listed by the last /memory-search or -preview
    turns,             \* process_prompt calls so far
    manuals,           \* memory commands so far
    \* history of the cycle in flight (or of the last one)
    pre,               \* conversation when process_prompt was entered
    pre_records,       \* the store's records when process_prompt was entered
    post_archival,     \* conversation when _archive_if_needed returned
    arch,              \* the path _archive_if_needed took
    n_summarize,       \* summarizer calls made by the cycle
    n_add,             \* store adds attempted by the cycle
    n_complete,        \* completion calls made by the cycle
    steps,             \* the steps of the cycle, in order
    outcome,           \* how the last cycle ended
    m_outcome,         \* how the last memory command since the last cycle ended
    commits,           \* process_prompt calls that appended their two entries
    archived,          \* the entries of every chunk a record was created from
    add_failed,        \* add_memory_chunk has raised
    asked,             \* _recall: the arguments of its query, while in use
    recall_path,       \* _recall: how it ended, while its result is in use
    c_recalled,        \* _compose_system_with_memory: its argument recalled
    c_composed,        \* _compose_system_with_memory: the parts of its result
    s_messages,        \* summarize_messages: its argument messages
    s_pc,              \* summarize_messages: its position
    s_llm,             \* summarize_messages: how _call_llm ended
    s_result,          \* summarize_messages: what it returned
    s_calls,           \* summarize_messages: requests sent by _call_llm
    q_records,         \* the collection: importance and distance of each record
    q_order,           \* the collection: its distance order for the query
    q_top_k,           \* query_relevant_memories: its argument top_k
    q_threshold,       \* query_relevant_memories: importance_threshold
    q_result,          \* query_relevant_memories: the last result
    q_prev,            \* query_relevant_memories: the result before it
    q_calls,           \* query_relevant_memories: calls so far
    k_pc,              \* interleaved cycles: where each process_prompt is
    k_input,           \* interleaved cycles: user_input of each
    k_end,             \* interleaved cycles: end_idx of each
    k_chunk,           \* interleaved cycles: chunk_to_archive of each
    k_alias,           \* interleaved cycles: convo is still app.conversation
    k_stale,           \* interleaved cycles: convo, once it is another list
    k_turns,           \* interleaved cycles: process_prompt calls so far
    k_committed,       \* interleaved cycles: every entry ever appended
    k_stored,          \* interleaved cycles: every entry of a stored chunk
    k_failed,          \* interleaved cycles: a store add has raised
    i_messages,        \* calculate_importance: its argument messages
    i_score,           \* calculate_importance: what it returned
    i_called,          \* calculate_importance: it has returned
    r_text,            \* CommandParser.run: its argument text
    r_result,          \* CommandParser.run: what it dispatched to
    r_called,          \* CommandParser.run: it has returned
    t_records,         \* the store alone: the records of its collection
    t_issued,          \* the store alone: ids made by uuid4 so far
    t_op,              \* the store alone: its last operation
    t_args,            \* the store alone: the arguments of that operation
    t_result,          \* the store alone: what that operation returned
    t_before,          \* the store alone: the records before that operation
    t_ops,             \* the store alone: operations so far
    mc_args,            \* cmd_memory_clear: its argument text
    mc_mem,             \* cmd_memory_clear: the app has an orchestrator with a store
    mc_before,          \* cmd_memory_clear: the ids stored when it was entered
    mc_records,         \* cmd_memory_clear: the ids stored
    mc_notice,          \* cmd_memory_clear: what update_description was given
    mc_called,          \* cmd_memory_clear: it has returned
    p_response,        \* _parse_summary_response: its argument text
    p_parsed,          \* _parse_summary_response: what it returned
    p_called,          \* _parse_summary_response: it has returned
    f_messages,        \* _format_messages_for_summary: its argument
    f_result,          \* _format_messages_for_summary: the lines it joined
    f_called,          \* _format_messages_for_summary: it has returned
    v_recalled,        \* cmd_memory_preview: the list _recall returned
    v_preview,         \* cmd_memory_preview: the parts of what it shows
    v_composed,        \* _compose_system_with_memory of the same list: its parts
    w_lists,           \* the list objects: the one both hold as convo, and the ones made since
    w_live,            \* the list object app.conversation names
    w_pc,              \* _do_memory_force: where the worker is
    w_chunk,           \* _do_memory_force: messages_to_archive
    w_end,             \* _do_memory_force: archive_end
    w_tpc,             \* process_prompt beside the worker: where it is
    w_tchunk,          \* process_prompt beside the worker: chunk_to_archive
    w_tend,            \* process_prompt beside the worker: end_idx
    w_records,         \* the chunks stored, with who stored them
    w_committed,       \* the entries the turn appended
    w_removed          \* the entries the worker's assignment took out of the live list

vars == << conversation, records, chunk_size, max_conversation, memory_enabled,
           mem, summarizer, configured, store_ok, has_orchestrator, system_prompt,
           command, m_pre, m_pre_records, shown, pc, user_input, end_idx, chunk_to_archive, recalled, messages,
           mpc, messages_to_archive, archive_end, m_convo, turns, manuals,
           pre, pre_records, post_archival, arch, n_summarize, n_add, n_complete,
           steps, outcome, m_outcome, commits, archived, add_failed, asked,
           recall_path,
           c_recalled, c_composed, s_messages, s_pc, s_llm, s_result, s_calls,
           q_records, q_order, q_top_k, q_threshold, q_result, q_prev,
           q_calls, k_pc, k_input, k_end, k_chunk, k_alias, k_stale, k_turns,
           k_committed, k_stored, k_failed,
           i_messages, i_score, i_called,
           r_text, r_result, r_called,
           t_records, t_issued, t_op, t_args, t_result, t_before, t_ops,
           mc_args, mc_mem, mc_before, mc_records, mc_notice, mc_called,
           p_response, p_parsed, p_called,
           f_messages, f_result, f_called,
           v_recalled, v_preview, v_composed,
           w_lists, w_live, w_pc, w_chunk, w_end, w_tpc, w_tchunk, w_tend, w_records, w_committed, w_removed >>

\* ------------------------------------------------------------------ lists
Min(a, b) == IF a < b THEN a ELSE b

Max(a, b) == IF a > b THEN a ELSE b

\* Python s[a:b] for 0 <= a, 0 <= b (b is clamped to len(s))
Slice(s, a, b) == SubSeq(s, a + 1, Min(b, Len(s)))

\* Python s[-k:] for k >= 0 (s[-0:] is the whole list, as is s[-k:] for k >= len(s))
LastN(s, k) ==
    IF k = 0 \/ k >= Len(s) THEN s ELSE SubSeq(s, Len(s) - k + 1, Len(s))

\* Python del s[a:b]
DelSlice(s, a, b) == Slice(s, 0, a) \o Slice(s, Max(a, b), Len(s))

\* the entries of a list
Entries(s) == {s[i] : i \in 1..Len(s)}

\* ---------------------------------------------------------------- entries
InitialPrompt == 0

SystemEntry == [role |-> "system", content |-> InitialPrompt]

UserEntry(input) == [role |-> "user", content |-> input]

AssistantEntry(input) == [role |-> "assistant", content |-> input]

\* ------------------------------------------------------------- summarizer
\* The outcomes of ConversationSummarizer._call_llm: a response carrying a
\* SUMMARY: and a TOPIC: line, a response that is empty after strip(), an
\* exception of the request (transport error, timeout, HTTP error status), or
\* a reply that cannot be read (not JSON, no choices, content not a string).
LlmFailures == {"error", "malformed"}

LlmOutcomes == {"labelled", "blank"} \cup LlmFailures

parse_summary_response(response) ==
    IF response = "labelled"
    THEN [summary |-> "llm summary", topic |-> "llm topic"]
    ELSE [summary |-> "", topic |-> ""]

HasUser(msgs) == \E i \in 1..Len(msgs) : msgs[i].role = "user"

fallback_summary(msgs) ==
    [summary |-> "Exchange of user messages and responses",
     topic |-> IF HasUser(msgs) THEN "first user words" ELSE "general conversation"]

\* what a caller of summarize_messages gets when an exception leaves it
Raised == [summary |-> "", topic |-> "", raised |-> TRUE]

\* faulty variant: the exception of the completion call is not caught
summarize_messages_uncaught(msgs, llm) ==
    IF msgs = <<>> THEN [summary |-> "", topic |-> ""]
    ELSE IF llm \in LlmFailures THEN Raised
    ELSE parse_summary_response(llm)

summarize_messages(msgs, llm) ==
    IF msgs = <<>> THEN [summary |-> "", topic |-> ""]
    ELSE IF llm \in LlmFailures THEN fallback_summary(msgs)
    ELSE parse_summary_response(llm)

\* faulty variant: an empty summary is stored as it is
SummaryText_as_returned(result) == result.summary

\* summary_text of _archive_if_needed and _do_memory_force
SummaryText(result) ==
    IF result.summary = "" THEN "Archived messages" ELSE result.summary

\* ------------------------------------------------------------------ store
\* ------------------------------------------------- calculate_importance
\* A content is given by its length and the set of its characters; a score
\* is the exact fraction num / den.
Content(length, chars) == [length |-> length, chars |-> chars]

lower(c) ==
    CASE c = "A" -> "a" [] c = "H" -> "h" [] c = "C" -> "c" [] c = "O" -> "o"
      [] c = "N" -> "n" [] c = "F" -> "f" [] c = "I" -> "i" [] c = "R" -> "r"
      [] c = "M" -> "m" [] OTHER -> c

\* sum(len(m.get('content', '')) for m in messages)
total_length(msgs) ==
    LET sum[i \in 0..Len(msgs)] ==
            IF i = 0 THEN 0 ELSE sum[i - 1] + msgs[i].length
    IN sum[Len(msgs)]

\* the characters of ' '.join(contents): between two contents stands a space
combined_text(msgs) ==
    UNION {msgs[i].chars : i \in 1..Len(msgs)}
        \cup (IF Len(msgs) >= 2 THEN {" "} ELSE {})

\* len(set(combined_text.lower()))
unique_chars(msgs) == Cardinality({lower(c) : c \in combined_text(msgs)})

\* the score as a fraction over 1000 * len(messages):
\*   0.5 -> 500 n, min(avg_length / 1000, 0.2) -> min(total_length, 200 n),
\*   min(n * 0.02, 0.15) -> n * min(20 n, 150),
\*   min(unique_chars / 50, 0.15) -> n * min(20 unique_chars, 150)
calculate_importance(msgs) ==
    IF msgs = <<>> THEN [num |-> 3, den |-> 10]
    ELSE LET n == Len(msgs)
             baseline == 500 * n
             length_factor == Min(total_length(msgs), 200 * n)
             message_bonus == n * Min(20 * n, 150)
             variety_score == IF total_length(msgs) > 0
                              THEN n * Min(20 * unique_chars(msgs), 150)
                              ELSE 0
             score == baseline + length_factor + message_bonus + variety_score
         IN [num |-> Min(score, 1000 * n), den |-> 1000 * n]

add_memory_chunk(recs, summary, original_messages, topic) ==
    Append(recs, [summary |-> summary, topic |-> topic,
                  message_count |-> Len(original_messages)])

\* The sequences of n distinct indices of recs: what collection.query may
\* return for n_results = n (the order is the backend's distance order).
RECURSIVE Rankings(_, _)
Rankings(S, n) ==
    IF n = 0 \/ S = {} THEN {<<>>}
    ELSE UNION {{<<i>> \o r : r \in Rankings(S \ {i}, n - 1)} : i \in S}

query_relevant_memories(recs, top_k) ==
    Rankings(1..Len(recs), Min(top_k, Len(recs)))

\* faulty variant: the importance filter is never passed to the collection
Where_dropped(importance_threshold) ==
    [active |-> FALSE, gte |-> importance_threshold]

\* the where clause of query_relevant_memories: importance $gte threshold
\* when the threshold is positive, none otherwise
Where(importance_threshold) ==
    [active |-> importance_threshold > 0, gte |-> importance_threshold]

\* collection.query of the vector store: the first n_results records that
\* pass the where clause, in the collection's distance order for the query
collection_query(recs, order, n_results, where) ==
    LET passes(i) == ~where.active \/ recs[i].importance >= where.gte
        eligible == SelectSeq(order, passes)
    IN SubSeq(eligible, 1, Min(n_results, Len(eligible)))

\* query_relevant_memories on a collection: one memory per returned document,
\* in the returned order, with its id, metadata and distance
QueryResult(recs, order, top_k, importance_threshold) ==
    LET ids == collection_query(recs, order, top_k, Where(importance_threshold))
    IN [k \in 1..Len(ids) |->
           [id |-> ids[k], importance |-> recs[ids[k]].importance,
            distance |-> recs[ids[k]].distance]]

\* search_memories(query, limit) is the same query with top_k = limit
search_memories(recs, limit) == query_relevant_memories(recs, limit)

\* clear_all deletes every id the collection holds
clear_all(recs) == <<>>

\* ----------------------------------------------------------- orchestrator
Degraded == ~memory_enabled \/ ~mem

\* faulty variant: the bound compared inclusively
ExceedsMax_inclusive(convo) == Len(convo) >= max_conversation

ExceedsMax(convo) == Len(convo) > max_conversation

\* faulty variant: [convo[0]] + convo[-max_conversation:]
Truncate_keep_max(convo) == <<convo[1]>> \o LastN(convo, max_conversation)

\* faulty variant: entry 0 is not kept apart
Truncate_tail_only(convo) == LastN(convo, max_conversation)

\* [convo[0]] + convo[-(max_conversation-1):]
Truncate(convo) == <<convo[1]>> \o LastN(convo, max_conversation - 1)

\* faulty variant: the chunk starts at the system entry
start_idx_zero == 1 - 1

start_idx == 1

\* faulty variant: the chunk is one entry longer
EndIdx_off_by_one(convo) == Min(start_idx + chunk_size + 1, Len(convo) - 1)

EndIdx(convo) == Min(start_idx + chunk_size, Len(convo) - 1)

\* what _recall may return: [] when degraded or when the query raises
importance_threshold == 3

\* no query was made
NotAsked == [query_text |-> 0, top_k |-> 0, importance_threshold |-> 0]

\* faulty variant: the threshold of the settings is not passed on
recall_query_unfiltered(latest_input) ==
    [query_text |-> latest_input, top_k |-> recall_top_k,
     importance_threshold |-> 0]

\* the arguments _recall passes to query_relevant_memories (the threshold
\* in tenths)
recall_query(latest_input) ==
    [query_text |-> latest_input, top_k |-> recall_top_k,
     importance_threshold |-> importance_threshold]

\* how _recall can end: without a query in degraded mode, else with matches,
\* with none, or with the query raising
RecallPaths ==
    IF Degraded THEN {"degraded"} ELSE {"matches", "no matches", "raised"}

\* what _recall returns on each path
Recalled(path) ==
    IF path = "matches"
    THEN query_relevant_memories(records, recall_top_k) \ {<<>>}
    ELSE {<<>>}

RecallResults ==
    IF Degraded THEN {<<>>}
    ELSE {<<>>} \cup query_relevant_memories(records, recall_top_k)

\* faulty variant: the whole conversation, entry 0 included, follows the
\* composed system message
Payload_whole(convo, rec, input) ==
    << [role |-> "system", content |-> system_prompt, memory |-> rec] >>
        \o convo
        \o << UserEntry(input) >>

\* the payload of process_prompt: composed system message, live window, input
Payload(convo, rec, input) ==
    << [role |-> "system", content |-> system_prompt, memory |-> rec] >>
        \o (IF Len(convo) > 1 THEN Tail(convo) ELSE <<>>)
        \o << UserEntry(input) >>

\* faulty variant: the user entry is appended before the completion call
AtCall_eager(convo, input) == Append(convo, UserEntry(input))

\* the live conversation while the completion call is outstanding
AtCall(convo, input) == convo

\* the two appends after the completion call returned
\* faulty variant: the reply is appended before the input
Committed_reply_first(convo, input) ==
    Append(Append(convo, AssistantEntry(input)), UserEntry(input))

\* faulty variant: only the reply is appended
Committed_reply_only(convo, input) ==
    Append(convo, AssistantEntry(input))

Committed(convo, input) ==
    Append(Append(convo, UserEntry(input)), AssistantEntry(input))

\* faulty variant: recall is skipped
AfterArchive_skip == "Composing"

\* the order of the steps of process_prompt
AfterArchive == "Recalling"

AfterRecall == "Composing"

AfterCompose == "AwaitingCompletion"

\* callers run one cycle or worker at a time
TurnMayStart == mpc = "none"

CommandMayRun == pc = "Idle"

\* faulty variant: memory_enabled is left as configured when the store raised
MemoryEnabledAfterInit_kept(cfg, ok) == cfg

\* memory_enabled after __init__: the configured value, cleared when the
\* store's constructor raised
MemoryEnabledAfterInit(cfg, ok) == cfg /\ ok

\* the limit cmd_memory_search passes to search_memories
SearchLimit == 5

\* the relevance band of _compose_system_with_memory; distances in tenths
Relevance(distance) ==
    IF distance < 3 THEN "high"
    ELSE IF distance < 6 THEN "medium"
    ELSE "low"

\* one part of the composed system prompt: the base prompt, the block's
\* header or footer, a numbered line of the block, or the time line
Part(kind, index, relevance, summary) ==
    [kind |-> kind, index |-> index, relevance |-> relevance,
     summary |-> summary]

Line(i, item) == Part("line", i, Relevance(item.distance), item.summary)

\* faulty variant: items of low relevance are left out of the block
RECURSIVE memory_lines_relevant(_, _)
memory_lines_relevant(rec, i) ==
    IF i > Len(rec) THEN <<>>
    ELSE (IF rec[i].summary # "" /\ Relevance(rec[i].distance) # "low"
          THEN << Line(i, rec[i]) >> ELSE <<>>)
         \o memory_lines_relevant(rec, i + 1)

\* the loop over enumerate(recalled, 1): an item with an empty summary gets
\* no line, and the index still advances
RECURSIVE memory_lines(_, _)
memory_lines(rec, i) ==
    IF i > Len(rec) THEN <<>>
    ELSE (IF rec[i].summary # "" THEN << Line(i, rec[i]) >> ELSE <<>>)
         \o memory_lines(rec, i + 1)

compose_system_with_memory(rec) ==
    LET lines == memory_lines(rec, 1)
        base == Part("base", 0, "", "")
        time == Part("time", 0, "", "")
    IN
    IF rec = <<>> \/ lines = <<>> THEN << base, time >>
    ELSE << base, Part("header", 0, "", "") >> \o lines
             \o << Part("footer", 0, "", ""), time >>

\* ------------------------------------------------------------------- Init
\* Orchestrator.__init__ on a fresh app: the conversation holds the system
\* entry alone; memory is enabled when the configuration enables it and the
\* store initialized, and is disabled with no store otherwise.
Constructed ==
    /\ conversation = << SystemEntry >>
    /\ records = <<>>
    /\ chunk_size \in 1..MaxChunk
    /\ max_conversation \in 2..MaxMax
    /\ configured \in BOOLEAN
    /\ store_ok \in BOOLEAN
    /\ has_orchestrator \in BOOLEAN
    /\ ~has_orchestrator =>
          ~configured /\ ~store_ok /\ chunk_size = 1 /\ max_conversation = 2
    /\ system_prompt = 0
    /\ command = "none"
    /\ memory_enabled = MemoryEnabledAfterInit(configured, store_ok)
    /\ mem = (configured /\ store_ok)
    /\ summarizer = (configured /\ store_ok)
    /\ pc = "Idle"
    /\ user_input = 0
    /\ end_idx = 0
    /\ chunk_to_archive = <<>>
    /\ recalled = <<>>
    /\ messages = <<>>
    /\ mpc = "none"
    /\ messages_to_archive = <<>>
    /\ archive_end = 0
    /\ m_convo = <<>>
    /\ m_pre = <<>>
    /\ m_pre_records = <<>>
    /\ shown = <<>>
    /\ turns = 0
    /\ manuals = 0
    /\ pre = <<>>
    /\ pre_records = <<>>
    /\ post_archival = <<>>
    /\ arch = "none"
    /\ n_summarize = 0
    /\ n_add = 0
    /\ n_complete = 0
    /\ steps = <<>>
    /\ outcome = "none"
    /\ m_outcome = "none"
    /\ commits = 0
    /\ archived = <<>>
    /\ add_failed = FALSE
    /\ asked = NotAsked
    /\ recall_path = "none"

\* no call of calculate_importance is under study
NoScore ==
    /\ i_messages = <<>>
    /\ i_score = [num |-> 0, den |-> 1]
    /\ i_called = FALSE

\* no call of CommandParser.run is under study
NoRun ==
    /\ r_text = <<>>
    /\ r_result = [dispatch |-> "none", handler |-> <<>>]
    /\ r_called = FALSE

\* no operation of the store is under study
NoStoring ==
    /\ t_records = <<>>
    /\ t_issued = 0
    /\ t_op = "none"
    /\ t_args = <<>>
    /\ t_result = <<>>
    /\ t_before = <<>>
    /\ t_ops = 0

\* no call of cmd_memory_clear is under study
NoClear ==
    /\ mc_args = <<>>
    /\ mc_mem = FALSE
    /\ mc_before = <<>>
    /\ mc_records = <<>>
    /\ mc_notice = "none"
    /\ mc_called = FALSE

\* no call of _parse_summary_response is under study
NoParse ==
    /\ p_response = <<>>
    /\ p_parsed = [summary |-> <<>>, topic |-> <<>>, key_points |-> <<>>]
    /\ p_called = FALSE

\* no call of _format_messages_for_summary is under study
NoFormat ==
    /\ f_messages = <<>>
    /\ f_result = <<>>
    /\ f_called = FALSE

\* no call of cmd_memory_preview is under study
NoPreview ==
    /\ v_recalled = <<>>
    /\ v_preview = <<>>
    /\ v_composed = <<>>

\* no archival worker beside a turn is under study
NoForce ==
    /\ w_lists = [o \in {"shared", "truncated", "kept"} |-> <<>>]
    /\ w_live = "shared"
    /\ w_pc = "none"
    /\ w_chunk = <<>>
    /\ w_end = 0
    /\ w_tpc = "Idle"
    /\ w_tchunk = <<>>
    /\ w_tend = 0
    /\ w_records = <<>>
    /\ w_committed = {}
    /\ w_removed = {}

\* no call of _compose_system_with_memory is under study
NoCompose ==
    /\ c_recalled = <<>>
    /\ c_composed = <<>>

\* no call of summarize_messages is under study
NoSummarize ==
    /\ s_messages = <<>>
    /\ s_pc = "none"
    /\ s_llm = "none"
    /\ s_result = <<>>
    /\ s_calls = 0

\* no collection is under study
NoQuery ==
    /\ q_records = <<>>
    /\ q_order = <<>>
    /\ q_top_k = 0
    /\ q_threshold = 0
    /\ q_result = <<>>
    /\ q_prev = <<>>
    /\ q_calls = 0

\* the two process_prompt calls that may be in flight together
Cycles == {1, 2}

\* no process_prompt call is in flight
NoCycles ==
    /\ k_pc = [c \in Cycles |-> "Idle"]
    /\ k_input = [c \in Cycles |-> 0]
    /\ k_end = [c \in Cycles |-> 0]
    /\ k_chunk = [c \in Cycles |-> <<>>]
    /\ k_alias = [c \in Cycles |-> TRUE]
    /\ k_stale = [c \in Cycles |-> <<>>]
    /\ k_turns = 0
    /\ k_committed = {}
    /\ k_stored = {}
    /\ k_failed = FALSE

Init == Constructed /\ NoCompose /\ NoSummarize /\ NoQuery /\ NoCycles
    /\ NoForce
    /\ NoPreview
    /\ NoFormat
    /\ NoParse
    /\ NoClear
    /\ NoStoring
    /\ NoRun
    /\ NoScore

\* an orchestrator constructed without memory, which takes no step
Parked ==
    /\ Constructed
    /\ ~configured /\ store_ok
    /\ chunk_size = 1 /\ max_conversation = 2

interleaved == << k_pc, k_input, k_end, k_chunk, k_alias, k_stale, k_turns,
                 k_committed, k_stored, k_failed >>

composing == << c_recalled, c_composed >>

summarizing == << s_messages, s_pc, s_llm, s_result, s_calls >>

querying == << q_records, q_order, q_top_k, q_threshold, q_result, q_prev,
              q_calls >>

scoring == << i_messages, i_score, i_called >>

parsing == << r_text, r_result, r_called >>

storing == << t_records, t_issued, t_op, t_args, t_result, t_before, t_ops >>

clearing == << mc_args, mc_mem, mc_before, mc_records, mc_notice, mc_called >>

responding == << p_response, p_parsed, p_called >>

formatting == << f_messages, f_result, f_called >>

previewing == << v_recalled, v_preview, v_composed >>

forcing == << w_lists, w_live, w_pc, w_chunk, w_end, w_tpc, w_tchunk, w_tend,
             w_records, w_committed, w_removed >>

pure == << composing, summarizing, querying, scoring, parsing, storing,
          clearing, responding, formatting, previewing, forcing >>

\* what the serialized turns and commands never touch
apart == << pure, interleaved >>

history == << commits, archived, add_failed >>

recalling == << asked, recall_path >>

settings == << chunk_size, max_conversation, memory_enabled, mem, summarizer,
              configured, store_ok, has_orchestrator >>

config == << settings, system_prompt >>

force == << mpc, messages_to_archive, archive_end, m_convo, m_pre,
           m_pre_records >>

manual == << force, shown, manuals, command >>

\* --------------------------------------------------------- process_prompt
\* process_prompt is entered
BeginTurn ==
    /\ pc = "Idle"
    /\ has_orchestrator
    /\ TurnMayStart
    /\ turns < MaxTurns
    /\ pc' = "Archiving"
    /\ turns' = turns + 1
    /\ user_input' = turns + 1
    /\ pre' = conversation
    /\ pre_records' = records
    /\ post_archival' = <<>>
    /\ arch' = "pending"
    /\ n_summarize' = 0
    /\ n_add' = 0
    /\ n_complete' = 0
    /\ steps' = <<>>
    /\ outcome' = "running"
    /\ m_outcome' = "none"
    /\ end_idx' = 0
    /\ chunk_to_archive' = <<>>
    /\ shown' = <<>>
    /\ command' = "none"
    /\ UNCHANGED << conversation, records, config, history, recalling, apart, recalled, messages, force,
                    manuals >>

\* _archive_if_needed returns to process_prompt
ArchiveReturns(convo, path) ==
    /\ conversation' = convo
    /\ post_archival' = convo
    /\ arch' = path
    /\ steps' = Append(steps, "archive")
    /\ pc' = AfterArchive

\* _archive_if_needed without a memory system: simple truncation
ArchiveDegraded ==
    /\ pc = "Archiving"
    /\ Degraded
    /\ ArchiveReturns(IF ExceedsMax(conversation) THEN Truncate(conversation)
                      ELSE conversation, "degraded")
    /\ UNCHANGED << end_idx, chunk_to_archive, records, config, history, recalling, apart, user_input, recalled, messages, manual,
                    turns, pre, pre_records, n_summarize, n_add, n_complete,
                    outcome, m_outcome >>

\* _archive_if_needed returns early: the window is within its bound, or the
\* chunk would be empty
ArchiveSkip ==
    /\ pc = "Archiving"
    /\ ~Degraded
    /\ ~ExceedsMax(conversation) \/ start_idx >= EndIdx(conversation)
    /\ ArchiveReturns(conversation,
                      IF ~ExceedsMax(conversation) THEN "minimal" ELSE "empty")
    /\ UNCHANGED << end_idx, chunk_to_archive, records, config, history, recalling, apart, user_input, recalled, messages, manual,
                    turns, pre, pre_records, n_summarize, n_add, n_complete,
                    outcome, m_outcome >>

\* _archive_if_needed selects the chunk and awaits the summarizer
ArchiveSelect ==
    /\ pc = "Archiving"
    /\ ~Degraded
    /\ ExceedsMax(conversation)
    /\ start_idx < EndIdx(conversation)
    /\ end_idx' = EndIdx(conversation)
    /\ chunk_to_archive' = Slice(conversation, start_idx, EndIdx(conversation))
    /\ n_summarize' = n_summarize + 1
    /\ pc' = "Summarizing"
    /\ UNCHANGED << conversation, records, config, history, recalling, apart, user_input, recalled,
                    messages, manual, turns, pre, pre_records, post_archival,
                    arch, n_add, n_complete, steps, outcome, m_outcome >>

\* the summarizer returned and the store accepted the record: the chunk is
\* deleted from the live conversation
ArchiveStore ==
    /\ pc = "Summarizing"
    /\ \E llm \in LlmOutcomes :
          LET result == summarize_messages(chunk_to_archive, llm) IN
          records' = add_memory_chunk(records, SummaryText(result),
                                      chunk_to_archive, result.topic)
    /\ n_add' = n_add + 1
    /\ archived' = archived \o chunk_to_archive
    /\ ArchiveReturns(DelSlice(conversation, start_idx, end_idx), "archived")
    /\ UNCHANGED << end_idx, chunk_to_archive, config, recalling, apart, commits, add_failed, user_input, recalled, messages, manual, turns, pre,
                    pre_records, n_summarize, n_complete, outcome, m_outcome >>

\* faulty variant: after the store's add raised, archival starts over
ArchiveStoreFails_retrying ==
    /\ pc = "Summarizing"
    /\ n_add' = n_add + 1
    /\ add_failed' = TRUE
    /\ pc' = "Archiving"
    /\ UNCHANGED << conversation, post_archival, arch, steps, end_idx, chunk_to_archive, records, config, recalling, apart, commits, archived, user_input, recalled, messages, manual,
                    turns, pre, pre_records, n_summarize, n_complete, outcome,
                    m_outcome >>

\* the summarizer returned and the store's add raised: fall back to truncation
ArchiveStoreFails ==
    /\ pc = "Summarizing"
    /\ n_add' = n_add + 1
    /\ add_failed' = TRUE
    /\ ArchiveReturns(IF ExceedsMax(conversation) THEN Truncate(conversation)
                      ELSE conversation, "store_failed")
    /\ UNCHANGED << end_idx, chunk_to_archive, records, config, recalling, apart, commits, archived, user_input, recalled, messages, manual,
                    turns, pre, pre_records, n_summarize, n_complete, outcome,
                    m_outcome >>

\* _recall
Recall ==
    /\ pc = "Recalling"
    /\ \E path \in RecallPaths :
          /\ recall_path' = path
          /\ recalled' \in Recalled(path)
          /\ asked' = IF path = "degraded" THEN NotAsked
                      ELSE recall_query(user_input)
    /\ steps' = Append(steps, "recall")
    /\ pc' = AfterRecall
    /\ UNCHANGED << conversation, records, config, history, apart, user_input, end_idx,
                    chunk_to_archive, messages, manual, turns, pre, pre_records,
                    post_archival, arch, n_summarize, n_add, n_complete,
                    outcome, m_outcome >>

\* _compose_system_with_memory and the payload; the completion call is made
Compose ==
    /\ pc = "Composing"
    /\ messages' = Payload(conversation, recalled, user_input)
    /\ conversation' = AtCall(conversation, user_input)
    /\ n_complete' = n_complete + 1
    /\ steps' = Append(steps, "compose")
    /\ pc' = AfterCompose
    /\ UNCHANGED << records, config, history, recalling, apart, user_input, end_idx, chunk_to_archive,
                    recalled, manual, turns, pre, pre_records, post_archival,
                    arch, n_summarize, n_add, outcome, m_outcome >>

\* _ask_ai_with_context returns a reply
CompletionReturns ==
    /\ pc = "AwaitingCompletion"
    /\ steps' = Append(steps, "complete")
    /\ pc' = "Committing"
    /\ UNCHANGED << conversation, records, config, history, recalling, apart, user_input, end_idx,
                    chunk_to_archive, recalled, messages, manual, turns, pre,
                    pre_records, post_archival, arch, n_summarize, n_add,
                    n_complete, outcome, m_outcome >>

\* faulty variant: a failed completion call is made again
CompletionFails_retry ==
    /\ pc = "AwaitingCompletion"
    /\ n_complete < 2
    /\ n_complete' = n_complete + 1
    /\ UNCHANGED << conversation, records, config, history, recalling, apart, user_input, end_idx,
                    chunk_to_archive, recalled, messages, manual, turns, pre,
                    pre_records, post_archival, arch, n_summarize, n_add,
                    steps, pc, outcome, m_outcome >>

\* _ask_ai_with_context raises: process_prompt raises to its caller
CompletionFails ==
    /\ pc = "AwaitingCompletion"
    /\ steps' = Append(steps, "complete")
    /\ pc' = "Idle"
    /\ outcome' = "failed"
    /\ recalled' = <<>>
    /\ asked' = NotAsked
    /\ recall_path' = "none"
    /\ messages' = <<>>
    /\ UNCHANGED << conversation, records, config, history, apart, user_input, end_idx,
                    chunk_to_archive, manual, turns, pre, pre_records,
                    post_archival, arch, n_summarize, n_add, n_complete,
                    m_outcome >>

\* the user entry and the reply are appended; process_prompt returns the reply
Commit ==
    /\ pc = "Committing"
    /\ conversation' = Committed(conversation, user_input)
    /\ commits' = commits + 1
    /\ steps' = Append(steps, "commit")
    /\ pc' = "Idle"
    /\ outcome' = "committed"
    /\ recalled' = <<>>
    /\ asked' = NotAsked
    /\ recall_path' = "none"
    /\ messages' = <<>>
    /\ UNCHANGED << records, config, apart, archived, add_failed, user_input, end_idx, chunk_to_archive,
                    manual, turns, pre, pre_records, post_archival, arch,
                    n_summarize, n_add, n_complete, m_outcome >>

\* ---------------------------------------------------------- /memory-force
cycle == << pc, user_input, end_idx, chunk_to_archive, recalled, messages,
            turns, pre, pre_records, post_archival, arch, n_summarize, n_add,
            n_complete, steps, outcome >>

\* faulty variant: the slice starts one entry early, so six entries are kept
KeepTail_early(convo, from) ==
    <<convo[1]>> \o Slice(convo, from - 1, Len(convo))

\* [convo[0]] + convo[archive_end:]
KeepTail(convo, from) == <<convo[1]>> \o Slice(convo, from, Len(convo))

\* faulty variant: the store is not looked at
MemoryUnavailable_store_unseen == ~has_orchestrator

\* the test every memory command starts with
MemoryUnavailable == ~has_orchestrator \/ ~mem

\* cmd_memory_force without a store: only a notice
ManualDisabled ==
    /\ CommandMayRun
    /\ mpc = "none"
    /\ manuals < MaxManual
    /\ MemoryUnavailable
    /\ manuals' = manuals + 1
    /\ command' = "memory-force"
    /\ m_outcome' = "disabled"
    /\ UNCHANGED << conversation, records, config, history, recalling, apart, cycle, force, shown >>

\* faulty variant: the worker is started although nothing can be archived
ManualRejected_started ==
    /\ CommandMayRun
    /\ mpc = "none"
    /\ manuals < MaxManual
    /\ ~MemoryUnavailable
    /\ Len(conversation) <= KeepLast + 1
    /\ manuals' = manuals + 1
    /\ command' = "memory-force"
    /\ mpc' = "summarizing"
    /\ m_outcome' = "rejected"
    /\ UNCHANGED << conversation, records, config, history, recalling, apart, cycle,
                    messages_to_archive, archive_end, m_convo, m_pre,
                    m_pre_records, shown >>

\* cmd_memory_force with at most 5 messages after the system entry
ManualRejected ==
    /\ CommandMayRun
    /\ mpc = "none"
    /\ manuals < MaxManual
    /\ ~MemoryUnavailable
    /\ Len(conversation) <= KeepLast + 1
    /\ manuals' = manuals + 1
    /\ command' = "memory-force"
    /\ m_outcome' = "rejected"
    /\ UNCHANGED << conversation, records, config, history, recalling, apart, cycle, force, shown >>

\* cmd_memory_force captures the chunk and starts the worker
ManualBegin ==
    /\ CommandMayRun
    /\ mpc = "none"
    /\ manuals < MaxManual
    /\ ~MemoryUnavailable
    /\ Len(conversation) > KeepLast + 1
    /\ 1 < Len(conversation) - KeepLast
    /\ archive_end' = Len(conversation) - KeepLast
    /\ messages_to_archive' = Slice(conversation, 1, Len(conversation) - KeepLast)
    /\ m_convo' = conversation
    /\ m_pre' = conversation
    /\ m_pre_records' = records
    /\ mpc' = "summarizing"
    /\ manuals' = manuals + 1
    /\ command' = "memory-force"
    /\ m_outcome' = "running"
    /\ UNCHANGED << conversation, records, config, history, recalling, apart, cycle, shown >>

\* _do_memory_force: the summarizer returned and the store accepted the record
ManualStore ==
    /\ mpc = "summarizing"
    /\ \E llm \in LlmOutcomes :
          LET result == summarize_messages(messages_to_archive, llm) IN
          records' = add_memory_chunk(records, SummaryText(result),
                                      messages_to_archive, result.topic)
    /\ conversation' = KeepTail(m_convo, archive_end)
    /\ archived' = archived \o messages_to_archive
    /\ mpc' = "none"
    /\ m_outcome' = "archived"
    /\ UNCHANGED << config, recalling, apart, commits, add_failed, cycle, manuals, shown, command, messages_to_archive,
                    archive_end, m_convo, m_pre, m_pre_records >>

\* faulty variant: the conversation is cut before the store is known to
\* have accepted the record
ManualStoreFails_removed ==
    /\ mpc = "summarizing"
    /\ add_failed' = TRUE
    /\ mpc' = "none"
    /\ conversation' = KeepTail(m_convo, archive_end)
    /\ m_outcome' = "failed"
    /\ UNCHANGED << records, config, recalling, apart, commits, archived, cycle, manuals, shown, command,
                    messages_to_archive, archive_end, m_convo, m_pre,
                    m_pre_records >>

\* _do_memory_force: the store's add raised; the error is reported
ManualStoreFails ==
    /\ mpc = "summarizing"
    /\ add_failed' = TRUE
    /\ mpc' = "none"
    /\ conversation' = conversation
    /\ m_outcome' = "failed"
    /\ UNCHANGED << records, config, recalling, apart, commits, archived, cycle, manuals, shown, command,
                    messages_to_archive, archive_end, m_convo, m_pre,
                    m_pre_records >>

\* ------------------------------------------------------------------- Next
\* cmd_memory_search with a store: a usage notice without a query, else the
\* matches are listed (none when the query raises)
MemorySearch ==
    /\ CommandMayRun
    /\ mpc = "none"
    /\ manuals < MaxManual
    /\ ~MemoryUnavailable
    /\ \E has_query \in BOOLEAN :
          IF has_query
          THEN /\ shown' \in {<<>>} \cup search_memories(records, SearchLimit)
               /\ m_outcome' = "searched"
          ELSE /\ shown' = <<>>
               /\ m_outcome' = "usage"
    /\ manuals' = manuals + 1
    /\ command' = "memory-search"
    /\ UNCHANGED << conversation, records, config, history, recalling, apart, cycle, force >>

\* faulty variant: the preview consumes the records it lists
MemoryPreview_consuming ==
    /\ CommandMayRun
    /\ mpc = "none"
    /\ manuals < MaxManual
    /\ ~MemoryUnavailable
    /\ shown' \in RecallResults
    /\ records' = clear_all(records)
    /\ m_outcome' = "previewed"
    /\ manuals' = manuals + 1
    /\ command' = "memory-preview"
    /\ UNCHANGED << conversation, config, history, recalling, apart, cycle, force >>

\* cmd_memory_preview with a store: lists what _recall returns for the query
MemoryPreview ==
    /\ CommandMayRun
    /\ mpc = "none"
    /\ manuals < MaxManual
    /\ ~MemoryUnavailable
    /\ shown' \in RecallResults
    /\ m_outcome' = "previewed"
    /\ manuals' = manuals + 1
    /\ command' = "memory-preview"
    /\ UNCHANGED << conversation, records, config, history, recalling, apart, cycle, force >>

\* cmd_memory_clear with a store: without the argument 'confirm' only a
\* notice; with it clear_all runs, and an exception it raises is reported
MemoryClear ==
    /\ CommandMayRun
    /\ mpc = "none"
    /\ manuals < MaxManual
    /\ ~MemoryUnavailable
    /\ \E path \in {"unconfirmed", "cleared", "error"} :
          /\ records' = IF path = "cleared" THEN clear_all(records) ELSE records
          /\ m_outcome' = path
    /\ manuals' = manuals + 1
    /\ command' = "memory-clear"
    /\ UNCHANGED << conversation, config, history, recalling, apart, cycle, force, shown >>

\* ------------------------------------------- _compose_system_with_memory
\* the longest recalled list composed
MaxRecalled == 3

\* the sequences over S of length at most n
SeqsUpTo(S, n) == UNION {[1..k -> S] : k \in 0..n}

\* Recalled items are built by query_relevant_memories from stored documents.
\* Every stored document is a summary_text of an archival, which is never
\* empty (SummaryText), so the items carry non-empty summaries.
RecalledItems == [summary : {"a", "b"}, distance : {2, 3, 5, 6}]

orchestrator == << conversation, records, config, cycle, manual, m_outcome,
                   history, recalling >>

InitCompose ==
    /\ Parked
    /\ NoCycles
    /\ NoForce
    /\ NoPreview
    /\ NoFormat
    /\ NoParse
    /\ NoClear
    /\ NoStoring
    /\ NoRun
    /\ NoScore
    /\ NoSummarize
    /\ NoQuery
    /\ c_recalled \in SeqsUpTo(RecalledItems, MaxRecalled)
    /\ c_composed = <<>>

ComposeCall ==
    /\ c_composed = <<>>
    /\ c_composed' = compose_system_with_memory(c_recalled)
    /\ UNCHANGED << orchestrator, interleaved, forcing, previewing, formatting, responding, clearing, storing, parsing, scoring, c_recalled, s_messages, s_pc,
                    s_llm, s_result, s_calls, q_records, q_order, q_top_k,
                    q_threshold, q_result, q_prev, q_calls >>

NextCompose == ComposeCall

SpecCompose == InitCompose /\ [][NextCompose]_vars

\* ------------------------------------------------- summarize_messages
\* the longest chunk summarized
MaxMessages == 3

ChunkEntries == [role : {"system", "user", "assistant"}, content : {1, 2}]

InitSummarizer ==
    /\ Parked
    /\ NoCycles
    /\ NoForce
    /\ NoPreview
    /\ NoFormat
    /\ NoParse
    /\ NoClear
    /\ NoStoring
    /\ NoRun
    /\ NoScore
    /\ NoCompose
    /\ NoQuery
    /\ s_messages \in SeqsUpTo(ChunkEntries, MaxMessages)
    /\ s_pc = "called"
    /\ s_llm = "none"
    /\ s_result = <<>>
    /\ s_calls = 0

summarizer_frame == << orchestrator, interleaved, forcing, previewing, formatting, responding, clearing, storing, parsing, scoring, c_recalled, c_composed, s_messages,
                      q_records, q_order, q_top_k, q_threshold, q_result,
                      q_prev, q_calls >>

\* summarize_messages with no messages returns the empty result at once
SummarizeNothing ==
    /\ s_pc = "called"
    /\ s_messages = <<>>
    /\ s_result' = summarize_messages(s_messages, "none")
    /\ s_pc' = "returned"
    /\ UNCHANGED << summarizer_frame, s_llm, s_calls >>

\* summarize_messages builds the prompt and awaits _call_llm
SummarizeAsk ==
    /\ s_pc = "called"
    /\ s_messages # <<>>
    /\ s_calls' = s_calls + 1
    /\ s_pc' = "awaiting"
    /\ UNCHANGED << summarizer_frame, s_llm, s_result >>

\* _call_llm ends; the reply is parsed, or the exception is caught and the
\* fallback summary is computed locally
SummarizeReturns ==
    /\ s_pc = "awaiting"
    /\ \E llm \in LlmOutcomes :
          /\ s_llm' = llm
          /\ s_result' = summarize_messages(s_messages, llm)
    /\ s_pc' = "returned"
    /\ UNCHANGED << summarizer_frame, s_calls >>

NextSummarizer ==
    \/ SummarizeNothing
    \/ SummarizeAsk
    \/ SummarizeReturns

SpecSummarizer == InitSummarizer /\ [][NextSummarizer]_vars

\* --------------------------------------------- query_relevant_memories
\* the most records the collection holds
MaxRecords == 3

\* the most queries made against one collection
MaxQueries == 2

\* importance and distance in tenths; calculate_importance gives at least 0.5
\* for the non-empty chunks that archival stores
StoredRecords == [importance : {5, 8}, distance : {1, 4}]

\* the orders of all records that ascend in distance: the collection's order
\* for the query, ties placed as the backend's state fixes them
DistanceOrders(recs) ==
    {o \in Rankings(1..Len(recs), Len(recs)) :
        \A i \in 1..Len(o) : \A j \in i..Len(o) :
            recs[o[i]].distance <= recs[o[j]].distance}

InitStore ==
    /\ Parked
    /\ NoCycles
    /\ NoForce
    /\ NoPreview
    /\ NoFormat
    /\ NoParse
    /\ NoClear
    /\ NoStoring
    /\ NoRun
    /\ NoScore
    /\ NoCompose
    /\ NoSummarize
    /\ q_records \in SeqsUpTo(StoredRecords, MaxRecords)
    /\ q_order \in DistanceOrders(q_records)
    /\ q_top_k \in {1, 2}
    /\ q_threshold \in {0, 3, 8}
    /\ q_result = <<>>
    /\ q_prev = <<>>
    /\ q_calls = 0

QueryCall ==
    /\ q_calls < MaxQueries
    /\ q_calls' = q_calls + 1
    /\ q_prev' = q_result
    /\ q_result' = QueryResult(q_records, q_order, q_top_k, q_threshold)
    /\ UNCHANGED << orchestrator, interleaved, forcing, previewing, formatting, responding, clearing, storing, parsing, scoring, c_recalled, c_composed,
                    s_messages, s_pc, s_llm, s_result, s_calls, q_records,
                    q_order, q_top_k, q_threshold >>

NextStore == QueryCall

SpecStore == InitStore /\ [][NextStore]_vars

\* ------------------------------------------------- the scorer on its own
MaxScored == 2
MaxRepeated == 8

\* "", "a", "aA", "Ab", "a b", seven letters, and a long text
Contents ==
    {Content(0, {}), Content(1, {"a"}), Content(2, {"a", "A"}),
     Content(2, {"A", "b"}), Content(3, {"a", " ", "b"}),
     Content(7, {"a", "b", "c", "d", "e", "f", "g"}),
     Content(250, {"a", "b", "c", "d", "e", "f", "g", "h", " "})}

\* every list of up to MaxScored contents, and one content repeated
ScoredLists ==
    SeqsUpTo(Contents, MaxScored)
        \cup {[i \in 1..n |-> c] : n \in 1..MaxRepeated, c \in Contents}

InitScore ==
    /\ Parked
    /\ NoCycles
    /\ NoForce
    /\ NoPreview
    /\ NoFormat
    /\ NoParse
    /\ NoClear
    /\ NoStoring
    /\ NoRun
    /\ NoCompose
    /\ NoSummarize
    /\ NoQuery
    /\ i_messages \in ScoredLists
    /\ i_score = [num |-> 0, den |-> 1]
    /\ i_called = FALSE

ScoreCall ==
    /\ ~i_called
    /\ i_called' = TRUE
    /\ i_score' = calculate_importance(i_messages)
    /\ UNCHANGED << orchestrator, interleaved, forcing, previewing, formatting, responding, clearing, storing, parsing, composing, summarizing,
                    querying, i_messages >>

NextScore == ScoreCall

SpecScore == InitScore /\ [][NextScore]_vars

\* ------------------------------------------------- CommandParser.run
\* A text is a sequence of characters. The parser's handlers are cmd_h and
\* cmd_m_h, entered as /h and /m-h.
MaxText == 4

Characters == {"/", "x", "h", "H", "m", "-", "_", " "}

Handlers == {<< "h" >>, << "m", "_", "h" >>}

\* text.strip().split(maxsplit = 1)[0], or the empty sequence when the text
\* has no parts
FirstPart(text) ==
    LET inked == {i \in 1..Len(text) : text[i] # " "} IN
    IF inked = {} THEN <<>>
    ELSE LET first == CHOOSE i \in inked : \A j \in inked : i <= j
             after == {i \in first..Len(text) : text[i] = " "}
             last == IF after = {} THEN Len(text)
                     ELSE (CHOOSE i \in after : \A j \in after : i <= j) - 1
         IN [i \in 1..(last - first + 1) |-> text[first + i - 1]]

\* parts[0].lower()
lowered(part) == [i \in 1..Len(part) |-> lower(part[i])]

\* cmd[1:].replace('-', '_')
handler_name(cmd) ==
    [i \in 1..(Len(cmd) - 1) |-> IF cmd[i + 1] = "-" THEN "_" ELSE cmd[i + 1]]

\* run: nothing for a text without parts, the handler found by getattr, or
\* else handle_ai_prompt
run(text) ==
    IF FirstPart(text) = <<>> THEN [dispatch |-> "none", handler |-> <<>>]
    ELSE LET name == handler_name(lowered(FirstPart(text))) IN
         IF name \in Handlers
         THEN [dispatch |-> "handler", handler |-> name]
         ELSE [dispatch |-> "handle_ai_prompt", handler |-> <<>>]

InitRun ==
    /\ Parked
    /\ NoCycles
    /\ NoForce
    /\ NoPreview
    /\ NoFormat
    /\ NoParse
    /\ NoClear
    /\ NoStoring
    /\ NoCompose
    /\ NoSummarize
    /\ NoQuery
    /\ NoScore
    /\ r_text \in SeqsUpTo(Characters, MaxText)
    /\ r_result = [dispatch |-> "none", handler |-> <<>>]
    /\ r_called = FALSE

RunCall ==
    /\ ~r_called
    /\ r_called' = TRUE
    /\ r_result' = run(r_text)
    /\ UNCHANGED << orchestrator, interleaved, forcing, previewing, formatting, responding, clearing, storing, composing, summarizing,
                    querying, scoring, r_text >>

NextRun == RunCall

SpecRun == InitRun /\ [][NextRun]_vars

\* ------------------------------------------------- the store on its own
\* The operations of ShortTermMemory on one collection. A record holds the
\* id, the document (summary) and the metadata add_memory_chunk builds. The
\* clock counts days (86400 s); an importance is a fraction num / den.
MaxStored == 2
MaxOps == 3
MaxClock == 2

Clock == 0..MaxClock

Summaries == {"walk", "talk"}

\* the message lists passed as original_messages
SourceLists ==
    {<< Content(1, {"a"}) >>, << Content(1, {"a"}), Content(1, {"a"}) >>}

\* the importance passed by a caller that supplies one
SuppliedImportance == [num |-> 7, den |-> 10]

None == "None"

\* uuid.uuid4().hex: a value no earlier call returned
uuid4_hex(issued) == issued + 1

\* collection.get(): every record, in the collection's order
collection_get(recs) == recs

\* collection.delete(ids = ...): the records with these ids are removed
collection_delete(recs, ids) ==
    LET kept(r) == r.id \notin ids IN SelectSeq(recs, kept)

\* faulty variant: a supplied importance is ignored
stored_record_rescored(memory_id, timestamp, summary, original_messages, topic, supplied, importance) ==
    [id |-> memory_id, summary |-> summary, timestamp |-> timestamp,
     importance |-> calculate_importance(original_messages),
     topic |-> topic, message_count |-> Len(original_messages)]

\* the id, document and metadata add_memory_chunk hands to collection.add
stored_record(memory_id, timestamp, summary, original_messages, topic, supplied, importance) ==
    [id |-> memory_id, summary |-> summary, timestamp |-> timestamp,
     importance |-> IF supplied THEN importance
                    ELSE calculate_importance(original_messages),
     topic |-> topic, message_count |-> Len(original_messages)]

MinOf(S) == CHOOSE x \in S : \A y \in S : x <= y

MaxOf(S) == CHOOSE x \in S : \A y \in S : x >= y

\* sum(importances), in thousandths
importance_sum(recs) ==
    LET sum[i \in 0..Len(recs)] ==
            IF i = 0 THEN 0
            ELSE sum[i - 1]
                   + (recs[i].importance.num * 1000) \div recs[i].importance.den
    IN sum[Len(recs)]

\* faulty variant: oldest and newest are taken the wrong way round
get_stats_swapped(recs) ==
    IF recs = <<>>
    THEN [count |-> 0, avg_importance |-> [num |-> 0, den |-> 1],
          oldest |-> None, newest |-> None]
    ELSE LET timestamps == {recs[i].timestamp : i \in 1..Len(recs)} IN
         [count |-> Len(recs),
          avg_importance |-> [num |-> importance_sum(recs),
                              den |-> 1000 * Len(recs)],
          oldest |-> MaxOf(timestamps), newest |-> MinOf(timestamps)]

get_stats(recs) ==
    IF recs = <<>>
    THEN [count |-> 0, avg_importance |-> [num |-> 0, den |-> 1],
          oldest |-> None, newest |-> None]
    ELSE LET timestamps == {recs[i].timestamp : i \in 1..Len(recs)} IN
         [count |-> Len(recs),
          avg_importance |-> [num |-> importance_sum(recs),
                              den |-> 1000 * Len(recs)],
          oldest |-> MinOf(timestamps), newest |-> MaxOf(timestamps)]

\* faulty variant: a record exactly at the cutoff is deleted too
ids_to_delete_inclusive(recs, now, days_threshold) ==
    {recs[i].id : i \in {j \in 1..Len(recs) :
                            recs[j].timestamp <= now - days_threshold}}

\* cleanup_old_memories: the ids whose timestamp is before the cutoff
ids_to_delete(recs, now, days_threshold) ==
    {recs[i].id : i \in {j \in 1..Len(recs) :
                            recs[j].timestamp < now - days_threshold}}

\* faulty variant: the first returned document is skipped
memories_skipping(recs, found) ==
    [k \in 1..(Len(found) - 1) |->
        [id |-> recs[found[k + 1]].id, summary |-> recs[found[k + 1]].summary,
         timestamp |-> recs[found[k + 1]].timestamp]]

\* query_relevant_memories: one memory per returned document
memories(recs, found) ==
    [k \in 1..Len(found) |->
        [id |-> recs[found[k]].id, summary |-> recs[found[k]].summary,
         timestamp |-> recs[found[k]].timestamp]]

InitStoring ==
    /\ Parked
    /\ NoCycles
    /\ NoForce
    /\ NoPreview
    /\ NoFormat
    /\ NoParse
    /\ NoClear
    /\ NoCompose
    /\ NoSummarize
    /\ NoQuery
    /\ NoScore
    /\ NoRun
    /\ t_records = <<>>
    /\ t_issued = 0
    /\ t_op = "none"
    /\ t_args = <<>>
    /\ t_result = <<>>
    /\ t_before = <<>>
    /\ t_ops = 0

storing_frame == << orchestrator, interleaved, forcing, previewing, formatting, responding, clearing, composing, summarizing,
                   querying, scoring, parsing >>

\* one more operation on the store
Operation(name, args) ==
    /\ t_ops < MaxOps
    /\ t_ops' = t_ops + 1
    /\ t_op' = name
    /\ t_args' = args
    /\ t_before' = t_records
    /\ UNCHANGED storing_frame

\* add_memory_chunk
StoreAdd ==
    /\ Len(t_records) < MaxStored
    /\ \E summary \in Summaries, original_messages \in SourceLists,
          supplied \in BOOLEAN, now \in Clock :
          LET memory_id == uuid4_hex(t_issued) IN
          /\ Operation("add", [summary |-> summary,
                               original_messages |-> original_messages,
                               supplied |-> supplied])
          /\ t_issued' = t_issued + 1
          /\ t_records' = Append(t_records,
                 stored_record(memory_id, now, summary, original_messages, "",
                               supplied, SuppliedImportance))
          /\ t_result' = memory_id

\* add_memory_chunk when collection.add raises: nothing is stored
StoreAddRaises ==
    /\ Operation("add raised", <<>>)
    /\ t_issued' = t_issued + 1
    /\ t_result' = <<>>
    /\ UNCHANGED t_records

\* clear_all
StoreClear ==
    /\ Operation("clear_all", <<>>)
    /\ t_records' = collection_delete(t_records,
                        {t_records[i].id : i \in 1..Len(t_records)})
    /\ t_result' = Len(collection_get(t_records))
    /\ UNCHANGED t_issued

\* get_stats
StoreStats ==
    /\ Operation("get_stats", <<>>)
    /\ t_result' = get_stats(collection_get(t_records))
    /\ UNCHANGED << t_records, t_issued >>

\* cleanup_old_memories
StoreCleanup ==
    /\ \E now \in Clock, days_threshold \in {0, 1} :
          LET ids == ids_to_delete(collection_get(t_records), now,
                                   days_threshold) IN
          /\ Operation("cleanup", [now |-> now,
                                   days_threshold |-> days_threshold])
          /\ t_records' = collection_delete(t_records, ids)
          /\ t_result' = Cardinality(ids)
    /\ UNCHANGED t_issued

\* query_relevant_memories with the default importance_threshold
StoreQuery ==
    /\ \E query_text \in Summaries, top_k \in {1, 2},
          order \in Rankings(1..Len(t_records), Len(t_records)) :
          /\ Operation("query", [query_text |-> query_text, top_k |-> top_k])
          /\ t_result' = memories(t_records,
                             collection_query(t_records, order, top_k,
                                              Where(0)))
    /\ UNCHANGED << t_records, t_issued >>

NextStoring ==
    \/ StoreAdd
    \/ StoreAddRaises
    \/ StoreClear
    \/ StoreStats
    \/ StoreCleanup
    \/ StoreQuery

SpecStoring == InitStoring /\ [][NextStoring]_vars

\* ------------------------------------------------- /memory-clear
\* The argument is a sequence of characters; the store holds ids 1..n.
MaxCleared == 2

Whitespace == {" ", "\t", "\n"}

Pads == {<<>>, << " " >>, << "\t", " " >>, << "\n" >>}

Confirm == << "c", "o", "n", "f", "i", "r", "m" >>

\* 'confirm' in some letter cases
ConfirmWords ==
    {Confirm,
     << "C", "O", "N", "F", "I", "R", "M" >>,
     << "C", "o", "n", "f", "i", "r", "m" >>,
     << "c", "O", "n", "F", "i", "R", "m" >>}

OtherWords ==
    {<<>>,
     << "y", "e", "s" >>,
     << "c", "o", "n", "f", "i", "r" >>,
     << "c", "o", "n", "f", "i", "r", "m", "s" >>,
     << "c", "o", "n", " ", "f", "i", "r", "m" >>,
     << "c", "o", "n", "f", "i", "r", "m", " ", "a", "l", "l" >>,
     << "a", "l", "l", " ", "C", "O", "N", "F", "I", "R", "M" >>}

Padded(words) == {l \o w \o r : l \in Pads, w \in words, r \in Pads}

ClearArgs == Padded(ConfirmWords \cup OtherWords)

\* str.strip(): leading and trailing whitespace removed
strip(text) ==
    LET inked == {i \in 1..Len(text) : text[i] \notin Whitespace} IN
    IF inked = {} THEN <<>>
    ELSE SubSeq(text, CHOOSE i \in inked : \A j \in inked : i <= j,
                      CHOOSE i \in inked : \A j \in inked : j <= i)

\* faulty variant: the argument is compared as typed
is_confirm_exact(args) == strip(args) = Confirm

\* args.strip().lower() == 'confirm'
is_confirm(args) == lowered(strip(args)) = Confirm

\* how cmd_memory_clear can end: the store's clear_all returns or raises
ClearPaths(unavailable, args) ==
    IF unavailable THEN {"disabled"}
    ELSE IF ~is_confirm(args) THEN {"unconfirmed"}
    ELSE {"cleared", "error"}

InitClear ==
    /\ Parked
    /\ NoCycles
    /\ NoForce
    /\ NoPreview
    /\ NoFormat
    /\ NoParse
    /\ NoCompose
    /\ NoSummarize
    /\ NoQuery
    /\ NoScore
    /\ NoRun
    /\ NoStoring
    /\ mc_args \in ClearArgs
    /\ mc_mem \in BOOLEAN
    /\ \E n \in 0..MaxCleared : mc_before = [i \in 1..n |-> i]
    /\ ~mc_mem => mc_before = <<>>
    /\ mc_records = mc_before
    /\ mc_notice = "none"
    /\ mc_called = FALSE

ClearCall ==
    /\ ~mc_called
    /\ mc_called' = TRUE
    /\ \E path \in ClearPaths(~mc_mem, mc_args) :
          /\ mc_notice' = path
          /\ mc_records' = IF path = "cleared" THEN clear_all(mc_records)
                          ELSE mc_records
    /\ UNCHANGED << orchestrator, interleaved, forcing, previewing, formatting, responding, composing, summarizing,
                    querying, scoring, parsing, storing, mc_args, mc_mem,
                    mc_before >>

NextClear == ClearCall

SpecClear == InitClear /\ [][NextClear]_vars

\* ------------------------------------------- _parse_summary_response
\* A response is a sequence of symbols: each of the three labels is one
\* symbol, the others are single characters.
MaxResponse == 5

Labels == {"SUMMARY:", "TOPIC:", "POINTS:"}

Symbols == Labels \cup {"a", ",", " ", "\n"}

\* str.split(sep)
RECURSIVE split(_, _)
split(text, sep) ==
    LET at == {i \in 1..Len(text) : text[i] = sep} IN
    IF at = {} THEN << text >>
    ELSE LET first == CHOOSE i \in at : \A j \in at : i <= j IN
         << SubSeq(text, 1, first - 1) >>
             \o split(SubSeq(text, first + 1, Len(text)), sep)

\* line.startswith(label)
startswith(line, label) == line # <<>> /\ line[1] = label

\* line.replace(label, ''): every occurrence is removed
replace(line, label) == SelectSeq(line, LAMBDA c : c # label)

\* [p.strip() for p in points_str.split(',') if p.strip()]
key_points(points_str) ==
    LET parts == split(points_str, ",") IN
    SelectSeq([i \in 1..Len(parts) |-> strip(parts[i])], LAMBDA p : p # <<>>)

\* the loop over response.split('\n')
RECURSIVE parse_lines(_, _)
parse_lines(lines, fields) ==
    IF lines = <<>> THEN fields
    ELSE LET line == strip(Head(lines)) IN
         parse_lines(Tail(lines),
            IF startswith(line, "SUMMARY:")
            THEN [fields EXCEPT !.summary = strip(replace(line, "SUMMARY:"))]
            ELSE IF startswith(line, "TOPIC:")
            THEN [fields EXCEPT !.topic = strip(replace(line, "TOPIC:"))]
            ELSE IF startswith(line, "POINTS:")
            THEN [fields EXCEPT !.key_points =
                                  key_points(strip(replace(line, "POINTS:")))]
            ELSE fields)

\* _parse_summary_response: an empty summary is replaced by the stripped
\* response
parse_summary_text(response) ==
    LET fields == parse_lines(split(response, "\n"),
                      [summary |-> <<>>, topic |-> <<>>, key_points |-> <<>>])
    IN [fields EXCEPT !.summary = IF fields.summary = <<>> THEN strip(response)
                                  ELSE fields.summary]

InitParse ==
    /\ Parked
    /\ NoCycles
    /\ NoForce
    /\ NoPreview
    /\ NoFormat
    /\ NoCompose
    /\ NoSummarize
    /\ NoQuery
    /\ NoScore
    /\ NoRun
    /\ NoStoring
    /\ NoClear
    /\ p_response \in SeqsUpTo(Symbols, MaxResponse)
    /\ p_parsed = [summary |-> <<>>, topic |-> <<>>, key_points |-> <<>>]
    /\ p_called = FALSE

ParseCall ==
    /\ ~p_called
    /\ p_called' = TRUE
    /\ p_parsed' = parse_summary_text(p_response)
    /\ UNCHANGED << orchestrator, interleaved, forcing, previewing, formatting, composing, summarizing,
                    querying, scoring, parsing, storing, clearing,
                    p_response >>

NextParse == ParseCall

SpecParse == InitParse /\ [][NextParse]_vars

\* --------------------------------------- _format_messages_for_summary
\* A body is the first len characters of one of the texts; a formatted line
\* is the upper-cased role, a body and, when truncated, the marker '...'.
MaxFormatted == 2

TruncateOver == 500

TruncateTo == 497

MarkerLength == 3

Texts == {"t", "u"}

BodyLengths == {0, 1, 497, 499, 500, 501, 1000}

Bodies == [text : Texts, len : BodyLengths]

FormattedEntries == [role : {"system", "user", "assistant"}, content : Bodies]

\* content[:n]
Prefix(content, n) ==
    [content EXCEPT !.len = IF content.len < n THEN content.len ELSE n]

\* role.upper()
upper(role) ==
    CASE role = "user" -> "USER" [] role = "assistant" -> "ASSISTANT"
      [] role = "system" -> "SYSTEM" [] OTHER -> role

\* faulty variant: a body of exactly 500 characters is truncated too
limited_inclusive(content) ==
    IF content.len >= TruncateOver
    THEN [body |-> Prefix(content, TruncateTo), marker |-> TRUE]
    ELSE [body |-> content, marker |-> FALSE]

\* if len(content) > 500: content = content[:497] + "..."
limited(content) ==
    IF content.len > TruncateOver
    THEN [body |-> Prefix(content, TruncateTo), marker |-> TRUE]
    ELSE [body |-> content, marker |-> FALSE]

\* the lines _format_messages_for_summary joins with '\n'
RECURSIVE format_messages_for_summary(_)
format_messages_for_summary(msgs) ==
    IF msgs = <<>> THEN <<>>
    ELSE LET msg == Head(msgs)
             rest == format_messages_for_summary(Tail(msgs))
         IN IF msg.role = "system" THEN rest
            ELSE << [role |-> upper(msg.role),
                     content |-> limited(msg.content)] >> \o rest

InitFormat ==
    /\ Parked
    /\ NoCycles
    /\ NoForce
    /\ NoPreview
    /\ NoCompose
    /\ NoSummarize
    /\ NoQuery
    /\ NoScore
    /\ NoRun
    /\ NoStoring
    /\ NoClear
    /\ NoParse
    /\ f_messages \in SeqsUpTo(FormattedEntries, MaxFormatted)
    /\ f_result = <<>>
    /\ f_called = FALSE

FormatCall ==
    /\ ~f_called
    /\ f_called' = TRUE
    /\ f_result' = format_messages_for_summary(f_messages)
    /\ UNCHANGED << orchestrator, interleaved, forcing, previewing, composing, summarizing,
                    querying, scoring, parsing, storing, clearing, responding,
                    f_messages >>

NextFormat == FormatCall

SpecFormat == InitFormat /\ [][NextFormat]_vars

\* ------------------------------------------------- /memory-preview
\* faulty variant: the bands' upper ends are inclusive
preview_relevance_inclusive(distance) ==
    IF distance <= 3 THEN "high"
    ELSE IF distance <= 6 THEN "medium"
    ELSE "low"

\* the relevance band of cmd_memory_preview; distances in tenths
preview_relevance(distance) ==
    IF distance < 3 THEN "high"
    ELSE IF distance < 6 THEN "medium"
    ELSE "low"

\* the first loop over enumerate(recalled, 1): one detail per item
preview_details(rec) ==
    [i \in 1..Len(rec) |->
        Part("detail", i, preview_relevance(rec[i].distance), rec[i].summary)]

\* the second loop over enumerate(recalled, 1): one line per item, as it
\* would appear in the system prompt
preview_lines(rec) ==
    [i \in 1..Len(rec) |->
        Part("line", i, preview_relevance(rec[i].distance), rec[i].summary)]

\* what cmd_memory_preview gives update_description for a recalled list
memory_preview(rec) ==
    IF rec = <<>> THEN << Part("no memories found", 0, "", "") >>
    ELSE << Part("query", 0, "", ""), Part("found", Len(rec), "", "") >>
            \o preview_details(rec)
            \o << Part("how it would appear", 0, "", ""),
                  Part("rule", 0, "", ""),
                  Part("base, first 100 characters", 0, "", ""),
                  Part("blank", 0, "", ""),
                  Part("header", 0, "", "") >>
            \o preview_lines(rec)
            \o << Part("footer", 0, "", ""),
                  Part("blank", 0, "", ""),
                  Part("time", 0, "", ""),
                  Part("rule", 0, "", "") >>

InitPreview ==
    /\ Parked
    /\ NoCycles
    /\ NoForce
    /\ NoCompose
    /\ NoSummarize
    /\ NoQuery
    /\ NoScore
    /\ NoRun
    /\ NoStoring
    /\ NoClear
    /\ NoParse
    /\ NoFormat
    /\ v_recalled \in SeqsUpTo(RecalledItems, MaxRecalled)
    /\ v_preview = <<>>
    /\ v_composed = <<>>

\* cmd_memory_preview shows the list
PreviewCall ==
    /\ v_preview = <<>>
    /\ v_preview' = memory_preview(v_recalled)
    /\ UNCHANGED << orchestrator, interleaved, forcing, composing, summarizing,
                    querying, scoring, parsing, storing, clearing, responding,
                    formatting, v_recalled, v_composed >>

\* a turn composes its system message from the same list
PreviewedCompose ==
    /\ v_composed = <<>>
    /\ v_composed' = compose_system_with_memory(v_recalled)
    /\ UNCHANGED << orchestrator, interleaved, forcing, composing, summarizing,
                    querying, scoring, parsing, storing, clearing, responding,
                    formatting, v_recalled, v_preview >>

NextPreview ==
    \/ PreviewCall
    \/ PreviewedCompose

SpecPreview == InitPreview /\ [][NextPreview]_vars

\* ----------------------------- /memory-force beside a process_prompt call
\* The worker of /memory-force and one process_prompt call on the same app,
\* each running from one await to the next without interruption. The call
\* starts while the worker awaits the summarizer, so both hold the same list
\* object as convo ("shared"); the truncation of _archive_if_needed and the
\* worker's last statement each bind app.conversation to a new list.
MaxExchanges == 4

\* the conversation after n committed exchanges
RECURSIVE Exchanges(_)
Exchanges(n) ==
    IF n = 0 THEN << SystemEntry >> ELSE Committed(Exchanges(n - 1), n)

InitForce ==
    /\ Constructed
    /\ has_orchestrator /\ configured /\ store_ok
    /\ NoCycles
    /\ NoCompose
    /\ NoSummarize
    /\ NoQuery
    /\ NoScore
    /\ NoRun
    /\ NoStoring
    /\ NoClear
    /\ NoParse
    /\ NoFormat
    /\ NoPreview
    /\ \E n \in 3..MaxExchanges :
          w_lists = [o \in {"shared", "truncated", "kept"} |->
                        IF o = "shared" THEN Exchanges(n) ELSE <<>>]
    /\ w_live = "shared"
    /\ w_pc = "none"
    /\ w_chunk = <<>>
    /\ w_end = 0
    /\ w_tpc = "Idle"
    /\ w_tchunk = <<>>
    /\ w_tend = 0
    /\ w_records = <<>>
    /\ w_committed = {}
    /\ w_removed = {}

force_frame == << orchestrator, interleaved, composing, summarizing, querying,
                 scoring, parsing, storing, clearing, responding, formatting,
                 previewing >>

\* app.conversation
Live == w_lists[w_live]

\* cmd_memory_force: convo, messages_to_archive and archive_end are taken
\* and the worker awaits the summarizer
ForceBegin ==
    /\ w_pc = "none"
    /\ Len(Live) > KeepLast + 1
    /\ 1 < Len(Live) - KeepLast
    /\ w_end' = Len(Live) - KeepLast
    /\ w_chunk' = Slice(Live, 1, Len(Live) - KeepLast)
    /\ w_pc' = "summarizing"
    /\ UNCHANGED << force_frame, w_lists, w_live, w_tpc, w_tchunk, w_tend,
                    w_records, w_committed, w_removed >>

\* _do_memory_force resumes: the store takes the chunk and app.conversation
\* becomes [convo[0]] + convo[archive_end:], of the list taken at the start
ForceStore ==
    /\ w_pc = "summarizing"
    /\ w_records' = Append(w_records, [by |-> "worker", chunk |-> w_chunk])
    /\ w_lists' = [w_lists EXCEPT !["kept"] = KeepTail(w_lists["shared"], w_end)]
    /\ w_live' = "kept"
    /\ w_removed' = Entries(Live) \ Entries(KeepTail(w_lists["shared"], w_end))
    /\ w_pc' = "done"
    /\ UNCHANGED << force_frame, w_chunk, w_end, w_tpc, w_tchunk, w_tend,
                    w_committed >>

\* _do_memory_force resumes and the summarizer or the store raised
ForceFails ==
    /\ w_pc = "summarizing"
    /\ w_pc' = "failed"
    /\ UNCHANGED << force_frame, w_lists, w_live, w_chunk, w_end, w_tpc,
                    w_tchunk, w_tend, w_records, w_committed, w_removed >>

\* process_prompt is called while the worker awaits: _archive_if_needed
\* selects its chunk and awaits the summarizer, or returns, and the call
\* goes on to the completion
TurnBeside ==
    /\ w_pc = "summarizing"
    /\ w_tpc = "Idle"
    /\ IF ExceedsMax(Live) /\ start_idx < EndIdx(Live)
       THEN /\ w_tend' = EndIdx(Live)
            /\ w_tchunk' = Slice(Live, start_idx, EndIdx(Live))
            /\ w_tpc' = "Summarizing"
       ELSE /\ w_tpc' = "AwaitingCompletion"
            /\ UNCHANGED << w_tend, w_tchunk >>
    /\ UNCHANGED << force_frame, w_lists, w_live, w_pc, w_chunk, w_end,
                    w_records, w_committed, w_removed >>

\* _archive_if_needed resumes: the store takes the chunk and the chunk is
\* deleted from the list taken at the start
TurnBesideStore ==
    /\ w_tpc = "Summarizing"
    /\ w_records' = Append(w_records, [by |-> "turn", chunk |-> w_tchunk])
    /\ w_lists' = [w_lists EXCEPT
                      !["shared"] = DelSlice(w_lists["shared"], start_idx, w_tend)]
    /\ w_tpc' = "AwaitingCompletion"
    /\ UNCHANGED << force_frame, w_live, w_pc, w_chunk, w_end, w_tchunk,
                    w_tend, w_committed, w_removed >>

\* _archive_if_needed resumes and the summarizer's caller or the store
\* raised: app.conversation becomes the truncation of the list taken at the
\* start
TurnBesideStoreFails ==
    /\ w_tpc = "Summarizing"
    /\ IF ExceedsMax(w_lists["shared"])
       THEN /\ w_lists' = [w_lists EXCEPT
                              !["truncated"] = Truncate(w_lists["shared"])]
            /\ w_live' = "truncated"
       ELSE UNCHANGED << w_lists, w_live >>
    /\ w_tpc' = "AwaitingCompletion"
    /\ UNCHANGED << force_frame, w_pc, w_chunk, w_end, w_tchunk, w_tend,
                    w_records, w_committed, w_removed >>

\* the completion returned: the two entries are appended to app.conversation
TurnBesideCommit ==
    /\ w_tpc = "AwaitingCompletion"
    /\ w_lists' = [w_lists EXCEPT ![w_live] = Committed(Live, MaxExchanges + 1)]
    /\ w_committed' = {UserEntry(MaxExchanges + 1),
                       AssistantEntry(MaxExchanges + 1)}
    /\ w_tpc' = "Committed"
    /\ UNCHANGED << force_frame, w_live, w_pc, w_chunk, w_end, w_tchunk,
                    w_tend, w_records, w_removed >>

\* the completion raised
TurnBesideFails ==
    /\ w_tpc = "AwaitingCompletion"
    /\ w_tpc' = "Failed"
    /\ UNCHANGED << force_frame, w_lists, w_live, w_pc, w_chunk, w_end,
                    w_tchunk, w_tend, w_records, w_committed, w_removed >>

NextForce ==
    \/ ForceBegin
    \/ ForceStore
    \/ ForceFails
    \/ TurnBeside
    \/ TurnBesideStore
    \/ TurnBesideStoreFails
    \/ TurnBesideCommit
    \/ TurnBesideFails

SpecForce == InitForce /\ [][NextForce]_vars

\* ------------------------------------------- interleaved process_prompt
\* Two process_prompt calls on one Orchestrator, each running from one await
\* to the next without interruption: the awaits are summarize_messages and
\* _ask_ai_with_context; the store's add and the appends are synchronous.
InitConc ==
    /\ Constructed
    /\ configured
    /\ NoCompose
    /\ NoSummarize
    /\ NoQuery
    /\ NoCycles
    /\ NoForce
    /\ NoPreview
    /\ NoFormat
    /\ NoParse
    /\ NoClear
    /\ NoStoring
    /\ NoRun
    /\ NoScore

conc_frame == << records, config, cycle, manual, m_outcome, history, recalling,
                pure >>

\* the list a cycle holds as convo
Convo(c) == IF k_alias[c] THEN conversation ELSE k_stale[c]

\* process_prompt is called and runs to its first await: the summarizer when
\* a chunk is selected, else the completion call
ConcBegin(c) ==
    /\ k_pc[c] = "Idle"
    /\ k_turns < MaxTurns
    /\ k_turns' = k_turns + 1
    /\ k_input' = [k_input EXCEPT ![c] = k_turns + 1]
    /\ IF Degraded
       THEN /\ conversation' = IF ExceedsMax(conversation)
                               THEN Truncate(conversation) ELSE conversation
            /\ k_pc' = [k_pc EXCEPT ![c] = "AwaitingCompletion"]
            /\ UNCHANGED << k_end, k_chunk, k_alias, k_stale >>
       ELSE IF ~ExceedsMax(conversation) \/ start_idx >= EndIdx(conversation)
       THEN /\ k_pc' = [k_pc EXCEPT ![c] = "AwaitingCompletion"]
            /\ UNCHANGED << conversation, k_end, k_chunk, k_alias, k_stale >>
       ELSE /\ k_end' = [k_end EXCEPT ![c] = EndIdx(conversation)]
            /\ k_chunk' = [k_chunk EXCEPT ![c] =
                              Slice(conversation, start_idx, EndIdx(conversation))]
            /\ k_alias' = [k_alias EXCEPT ![c] = TRUE]
            /\ k_stale' = [k_stale EXCEPT ![c] = <<>>]
            /\ k_pc' = [k_pc EXCEPT ![c] = "Summarizing"]
            /\ UNCHANGED conversation
    /\ UNCHANGED << conc_frame, k_committed, k_stored, k_failed >>

\* the summarizer returned and the store accepted the record: del
\* convo[start_idx:end_idx] on the list held as convo; then recall and
\* composition run up to the completion call
ConcArchiveStore(c) ==
    /\ k_pc[c] = "Summarizing"
    /\ \E llm \in LlmOutcomes :
          LET result == summarize_messages(k_chunk[c], llm) IN
          records' = add_memory_chunk(records, SummaryText(result),
                                      k_chunk[c], result.topic)
    /\ k_stored' = k_stored \cup Entries(k_chunk[c])
    /\ IF k_alias[c]
       THEN /\ conversation' = DelSlice(conversation, start_idx, k_end[c])
            /\ UNCHANGED k_stale
       ELSE /\ k_stale' = [k_stale EXCEPT ![c] =
                              DelSlice(k_stale[c], start_idx, k_end[c])]
            /\ UNCHANGED conversation
    /\ k_pc' = [k_pc EXCEPT ![c] = "AwaitingCompletion"]
    /\ UNCHANGED << config, cycle, manual, m_outcome, history, recalling, pure, k_input,
                    k_end, k_chunk, k_alias, k_turns, k_committed, k_failed >>

\* the store's add raised: app.conversation is assigned a new, truncated
\* list when convo is over the bound, and a cycle still holding the old list
\* as convo keeps it
ConcArchiveStoreFails(c) ==
    /\ k_pc[c] = "Summarizing"
    /\ k_failed' = TRUE
    /\ IF ExceedsMax(Convo(c))
       THEN /\ conversation' = Truncate(Convo(c))
            /\ k_alias' = [d \in Cycles |->
                              IF d # c /\ k_pc[d] = "Summarizing"
                              THEN FALSE ELSE k_alias[d]]
            /\ k_stale' = [d \in Cycles |->
                              IF d # c /\ k_pc[d] = "Summarizing" /\ k_alias[d]
                              THEN conversation ELSE k_stale[d]]
       ELSE UNCHANGED << conversation, k_alias, k_stale >>
    /\ k_pc' = [k_pc EXCEPT ![c] = "AwaitingCompletion"]
    /\ UNCHANGED << conc_frame, k_input, k_end, k_chunk, k_turns, k_committed,
                    k_stored >>

\* _ask_ai_with_context returned: both entries are appended to
\* app.conversation and process_prompt returns
ConcCommit(c) ==
    /\ k_pc[c] = "AwaitingCompletion"
    /\ conversation' = Committed(conversation, k_input[c])
    /\ k_committed' = k_committed \cup
          {UserEntry(k_input[c]), AssistantEntry(k_input[c])}
    /\ k_pc' = [k_pc EXCEPT ![c] = "Idle"]
    /\ UNCHANGED << conc_frame, k_input, k_end, k_chunk, k_alias, k_stale,
                    k_turns, k_stored, k_failed >>

\* _ask_ai_with_context raised: process_prompt raises, nothing is appended
ConcCompletionFails(c) ==
    /\ k_pc[c] = "AwaitingCompletion"
    /\ k_pc' = [k_pc EXCEPT ![c] = "Idle"]
    /\ UNCHANGED << conversation, conc_frame, k_input, k_end, k_chunk, k_alias,
                    k_stale, k_turns, k_committed, k_stored, k_failed >>

NextConc ==
    \/ \E c \in Cycles : ConcBegin(c)
    \/ \E c \in Cycles : ConcArchiveStore(c)
    \/ \E c \in Cycles : ConcArchiveStoreFails(c)
    \/ \E c \in Cycles : ConcCommit(c)
    \/ \E c \in Cycles : ConcCompletionFails(c)

SpecConc == InitConc /\ [][NextConc]_vars

Next ==
    \/ BeginTurn
    \/ ArchiveDegraded
    \/ ArchiveSkip
    \/ ArchiveSelect
    \/ ArchiveStore
    \/ ArchiveStoreFails
    \/ Recall
    \/ Compose
    \/ CompletionReturns
    \/ CompletionFails
    \/ Commit
    \/ ManualDisabled
    \/ ManualRejected
    \/ ManualBegin
    \/ ManualStore
    \/ ManualStoreFails

Spec == Init /\ [][Next]_vars

\* the steps of one process_prompt cycle after its start: each is the return
\* or the failure of an await, or straight-line code between two awaits
CycleStep ==
    \/ ArchiveDegraded
    \/ ArchiveSkip
    \/ ArchiveSelect
    \/ ArchiveStore
    \/ ArchiveStoreFails
    \/ Recall
    \/ Compose
    \/ CompletionReturns
    \/ CompletionFails
    \/ Commit

\* every external call eventually returns or fails, and the event loop
\* resumes the coroutine: a cycle that can take a step eventually takes one
NextLive ==
    \/ BeginTurn
    \/ CycleStep

SpecLive == Init /\ [][NextLive]_vars /\ WF_vars(CycleStep)

\* the turns and /memory-force together with the other memory commands
\* cmd_memory_stats with a store: the statistics are reported
MemoryStats ==
    /\ CommandMayRun
    /\ mpc = "none"
    /\ manuals < MaxManual
    /\ ~MemoryUnavailable
    /\ \E path \in {"stats", "error"} : m_outcome' = path
    /\ manuals' = manuals + 1
    /\ command' = "memory-stats"
    /\ UNCHANGED << conversation, records, config, history, recalling, apart, cycle, force,
                    shown >>

\* a memory command other than /memory-force without a store: only a notice
CommandDisabled(name) ==
    /\ CommandMayRun
    /\ mpc = "none"
    /\ manuals < MaxManual
    /\ MemoryUnavailable
    /\ manuals' = manuals + 1
    /\ command' = name
    /\ m_outcome' = "disabled"
    /\ UNCHANGED << conversation, records, config, history, recalling, apart, cycle, force,
                    shown >>

StatsDisabled == CommandDisabled("memory-stats")

ClearDisabled == CommandDisabled("memory-clear")

SearchDisabled == CommandDisabled("memory-search")

PreviewDisabled == CommandDisabled("memory-preview")

NewPrompts == {1}

\* cmd_system: with an argument app.system_prompt is assigned, without one
\* the prompt is shown
CmdSystem ==
    /\ CommandMayRun
    /\ mpc = "none"
    /\ manuals < MaxManual
    /\ \E has_args \in BOOLEAN :
          IF has_args
          THEN /\ system_prompt' \in NewPrompts
               /\ m_outcome' = "prompt set"
          ELSE /\ system_prompt' = system_prompt
               /\ m_outcome' = "prompt shown"
    /\ manuals' = manuals + 1
    /\ command' = "system"
    /\ UNCHANGED << conversation, records, settings, history, recalling, apart, cycle,
                    force, shown >>

NextCommands ==
    \/ Next
    \/ MemorySearch
    \/ MemoryPreview
    \/ MemoryClear
    \/ MemoryStats

SpecCommands == Init /\ [][NextCommands]_vars

\* the turns and /memory-force with the other memory commands entered
\* without orchestrator or store
NextDisabled ==
    \/ Next
    \/ StatsDisabled
    \/ ClearDisabled
    \/ SearchDisabled
    \/ PreviewDisabled

SpecDisabled == Init /\ [][NextDisabled]_vars

\* the turns and /memory-force with /system
NextPrompt ==
    \/ Next
    \/ CmdSystem

SpecPrompt == Init /\ [][NextPrompt]_vars

\* ================================================================= claims
\* the conversation has not been touched since the last cycle returned
AfterTurn == pc = "Idle" /\ outcome \in {"committed", "failed"} /\ m_outcome = "none"

\* the cycle is between the end of archival and its return
AfterArchival == pc \in {"Recalling", "Composing", "AwaitingCompletion", "Committing"}

\* C1: in every reachable state entry 0 of the conversation is the system
\* entry; no chunk selected for archival (automatic or manual) holds a system
\* entry, and no later entry has role system.
C1_SystemEntryFirst ==
    /\ Len(conversation) >= 1
    /\ conversation[1] = SystemEntry
    /\ \A i \in 2..Len(conversation) : conversation[i].role # "system"
    /\ \A i \in 1..Len(chunk_to_archive) : chunk_to_archive[i].role # "system"
    /\ \A i \in 1..Len(messages_to_archive) : messages_to_archive[i].role # "system"

\* C1 witness: a cycle archived a chunk automatically and committed, then a
\* manual archival replaced the conversation.
C1_Witness ==
    /\ m_outcome = "archived"
    /\ arch = "archived"
    /\ outcome = "committed"
    /\ conversation[1].role = "system"

\* C2: immediately after a cycle that committed, the conversation is within
\* max_conversation, or exceeds it by no more than the two entries the cycle
\* committed.
C2_WindowBound ==
    (AfterTurn /\ outcome = "committed") =>
        \/ Len(conversation) <= max_conversation
        \/ Len(conversation) - 2 <= max_conversation

\* C3: when the conversation is within max_conversation at the start of the
\* archival step, the step changes neither the conversation nor the store and
\* calls neither the summarizer nor the store.
C3_MinimalWindowNoOp ==
    /\ pc = "Summarizing" => Len(pre) > max_conversation
    /\ (AfterArchival /\ Len(pre) <= max_conversation) =>
          /\ post_archival = pre
          /\ conversation = pre
          /\ records = pre_records
          /\ n_summarize = 0
          /\ n_add = 0

\* C3 witness: the archival step ran on a window of exactly max_conversation
\* entries with memory enabled.
C3_Witness ==
    /\ pc = "Recalling"
    /\ ~Degraded
    /\ Len(pre) = max_conversation
    /\ Len(pre_records) >= 1

\* C4: between archival and the return of the completion call the live
\* conversation is the post-archival one; a failed completion call leaves it
\* so (with the archival's record kept), a successful one appends the user
\* entry and the reply.
C4_CommitAfterCompletion ==
    /\ AfterArchival => conversation = post_archival
    /\ (AfterTurn /\ outcome = "failed") =>
          /\ conversation = post_archival
          /\ arch = "archived" => Len(records) = Len(pre_records) + 1
    /\ (AfterTurn /\ outcome = "committed") =>
          conversation = post_archival
              \o << UserEntry(user_input), AssistantEntry(user_input) >>

\* C4 witness: the completion call failed in a cycle that had archived a chunk.
C4_Witness ==
    /\ AfterTurn
    /\ outcome = "failed"
    /\ arch = "archived"
    /\ post_archival # pre

\* C5: when the store's add fails during automatic archival no record is
\* created and every entry of the selected chunk is still in the conversation.
C5_StoreFailureKeepsChunk ==
    arch = "store_failed" =>
        /\ Len(records) = Len(pre_records)
        /\ \A i \in 1..Len(chunk_to_archive) :
              \E j \in 1..Len(post_archival) :
                  post_archival[j] = chunk_to_archive[i]

\* C6: in degraded mode no record is ever created, and an archival step that
\* finds more than max_conversation entries leaves entry 0 followed by the
\* last max_conversation - 1 entries.
C6_DegradedTruncation ==
    Degraded =>
        /\ records = <<>>
        /\ (arch = "degraded" /\ Len(pre) > max_conversation) =>
              /\ Len(post_archival) = max_conversation
              /\ post_archival[1] = pre[1]
              /\ \A k \in 1..(max_conversation - 1) :
                    post_archival[1 + k]
                        = pre[Len(pre) - (max_conversation - 1) + k]

\* C6 witness: a degraded cycle truncated a window of max_conversation + 2.
C6_Witness ==
    /\ Degraded
    /\ arch = "degraded"
    /\ Len(pre) = max_conversation + 2
    /\ AfterArchival

\* C7: the steps of a cycle occur in the order archival, recall, composition,
\* completion call, commit; none is skipped, and commit follows only a
\* completion call that returned.
C7_StepOrder ==
    /\ pc = "Recalling" => steps = << "archive" >>
    /\ pc = "Composing" => steps = << "archive", "recall" >>
    /\ pc = "AwaitingCompletion" => steps = << "archive", "recall", "compose" >>
    /\ pc = "Committing" =>
          steps = << "archive", "recall", "compose", "complete" >>
    /\ (pc = "Idle" /\ outcome = "failed") =>
          steps = << "archive", "recall", "compose", "complete" >>
    /\ (pc = "Idle" /\ outcome = "committed") =>
          steps = << "archive", "recall", "compose", "complete", "commit" >>
    /\ pc \in {"Archiving", "Summarizing"} => steps = <<>>

\* C7 witness: a cycle that archived a chunk ran to its commit.
C7_Witness ==
    /\ pc = "Idle"
    /\ outcome = "committed"
    /\ arch = "archived"
    /\ Len(steps) = 5

\* C8: an automatic archival pass whose store add succeeded removed one
\* contiguous chunk starting at index 1, of at most chunk_size entries and of
\* exactly chunk_size when at least chunk_size + 1 entries follow index 0,
\* created one record counting the removed entries, and kept the rest in
\* order.
C8_OneChunkArchived ==
    (arch = "archived" /\ (AfterArchival \/ AfterTurn)) =>
        LET n == Len(pre) - Len(post_archival) IN
        /\ Len(pre) > max_conversation
        /\ n >= 1
        /\ n <= chunk_size
        /\ (Len(pre) - 1 >= chunk_size + 1) => n = chunk_size
        /\ post_archival = << pre[1] >> \o SubSeq(pre, n + 2, Len(pre))
        /\ Len(records) = Len(pre_records) + 1
        /\ SubSeq(records, 1, Len(pre_records)) = pre_records
        /\ records[Len(records)].message_count = n

\* C8 witness: a pass removed a full chunk of more than one entry, and
\* entries remained after it.
C8_Witness ==
    /\ arch = "archived"
    /\ AfterArchival
    /\ chunk_size >= 2
    /\ Len(pre) - Len(post_archival) = chunk_size
    /\ Len(post_archival) >= 3

\* C9: with memory enabled, when the archival step ends the conversation is
\* within max_conversation or nothing is left to archive (only the system
\* entry and the final exchange remain).
C9_ArchiveUntilBounded ==
    (~Degraded /\ arch \in {"minimal", "empty", "archived"} /\ AfterArchival) =>
        \/ Len(post_archival) <= max_conversation
        \/ Len(post_archival) <= 3

\* C10: the chunk selected for automatic archival holds neither entry of the
\* final user/assistant exchange of the live conversation.
C10_FinalExchangeKept ==
    pc = "Summarizing" =>
        LET n == Len(conversation) IN
        (n >= 3 /\ conversation[n - 1].role = "user"
                /\ conversation[n].role = "assistant") =>
            /\ \A i \in 1..Len(chunk_to_archive) :
                  /\ chunk_to_archive[i] # conversation[n - 1]
                  /\ chunk_to_archive[i] # conversation[n]

\* C11: a manual archival entered with L > 6 entries and a working store
\* archives exactly the entries at indices 1..L-6 as one chunk, adds exactly
\* one record, and leaves entry 0 followed by the last five entries in order.
C11_ManualArchival ==
    m_outcome = "archived" =>
        LET L == Len(m_pre) IN
        /\ L > KeepLast + 1
        /\ messages_to_archive = SubSeq(m_pre, 2, L - KeepLast)
        /\ Len(messages_to_archive) = L - 6
        /\ Len(records) = Len(m_pre_records) + 1
        /\ SubSeq(records, 1, Len(m_pre_records)) = m_pre_records
        /\ records[Len(records)].message_count = L - 6
        /\ conversation = <<m_pre[1]>> \o SubSeq(m_pre, L - 4, L)
        /\ Len(conversation) = 6

\* C11 witness: a manual archival of more than one entry succeeded.
C11_Witness ==
    /\ m_outcome = "archived"
    /\ Len(m_pre) >= 8
    /\ Len(records) = Len(m_pre_records) + 1

\* C12: manual archival removes entries from the live conversation only in
\* the step in which the store accepts the record; when the store's add
\* fails the conversation and the records are what they were on entry.
C12_ManualSummarizeThenRemove ==
    [][mpc = "summarizing" =>
          /\ (conversation' # conversation) =>
                 \E rec \in {records'[i] : i \in 1..Len(records')} :
                     records' = Append(records, rec)
          /\ (m_outcome' = "failed") =>
                 /\ conversation' = m_pre
                 /\ records' = m_pre_records]_vars

\* C12 witness: a manual archival failed at the store with entries selected.
C12_Witness ==
    /\ m_outcome = "failed"
    /\ Len(messages_to_archive) >= 1
    /\ conversation = m_pre

\* C14: the recall step of a turn, /memory-search and /memory-preview change
\* neither the records nor the live conversation; the records change only
\* by an archival appending one record or by clear_all emptying the store.
C14_RecallReadOnly ==
    [][/\ (pc = "Recalling" \/
              m_outcome' \in {"searched", "usage", "previewed"}) =>
             (records' = records /\ conversation' = conversation)
       /\ (records' # records) =>
             \/ /\ pc = "Summarizing" \/ mpc = "summarizing"
                /\ Len(records') = Len(records) + 1
                /\ SubSeq(records', 1, Len(records)) = records
             \/ /\ pc = "Idle" /\ mpc = "none"
                /\ m_outcome' = "cleared"
                /\ records' = <<>>]_vars

\* C14 witness: a search or a preview listed a stored record, which is still
\* stored.
C14_Witness ==
    /\ m_outcome \in {"searched", "previewed"}
    /\ Len(shown) >= 1
    /\ Len(records) >= 1

\* C15: the message list handed to the completion call is the composed
\* system message, then the post-archival conversation without entry 0 in
\* order, then the new user entry; its only system message is the first, and
\* the live conversation is still the post-archival one, without the new
\* user entry.
C15_OutgoingMessages ==
    pc \in {"AwaitingCompletion", "Committing"} =>
        /\ messages = << [role |-> "system", content |-> 0,
                          memory |-> recalled] >>
                      \o SubSeq(post_archival, 2, Len(post_archival))
                      \o << UserEntry(user_input) >>
        /\ Len(messages) = Len(post_archival) + 1
        /\ messages[1].role = "system"
        /\ \A i \in 2..Len(messages) : messages[i].role # "system"
        /\ conversation = post_archival
        /\ \A i \in 1..Len(conversation) :
              conversation[i] # UserEntry(user_input)

\* C15 witness: a completion call is outstanding with earlier exchanges in
\* the window and a recalled memory in the composed system message.
C15_Witness ==
    /\ pc = "AwaitingCompletion"
    /\ Len(post_archival) >= 3
    /\ Len(recalled) >= 1
    /\ Len(messages) = Len(post_archival) + 1

\* C18: when the store failed to initialize the orchestrator exists with
\* memory disabled, no store and no summarizer; no cycle then summarizes or
\* stores anything, archival is the truncation path, and recall is empty.
C18_DegradedAfterInitFailure ==
    ~store_ok =>
        /\ ~memory_enabled /\ ~mem /\ ~summarizer
        /\ Degraded
        /\ records = <<>>
        /\ n_summarize = 0 /\ n_add = 0
        /\ recalled = <<>>
        /\ arch \in {"none", "pending", "degraded"}
        /\ (arch = "degraded" /\ Len(pre) > max_conversation) =>
              post_archival = <<pre[1]>> \o
                  SubSeq(pre, Len(pre) - max_conversation + 2, Len(pre))

\* C18 witness: memory was configured, the store failed to initialize, and a
\* later cycle truncated the window and committed.
C18_Witness ==
    /\ configured /\ ~store_ok
    /\ arch = "degraded"
    /\ Len(pre) > max_conversation
    /\ outcome = "committed"
    /\ turns >= 3

\* C19: a cycle makes at most one completion call; a cycle that failed made
\* exactly one and is over.
C19_AtMostOnce ==
    /\ n_complete <= 1
    /\ outcome = "failed" => (n_complete = 1 /\ pc = "Idle")
    /\ pc \in {"AwaitingCompletion", "Committing"} => n_complete = 1

\* C19 witness: a cycle ended with a failed completion call.
C19_Witness ==
    /\ outcome = "failed"
    /\ pc = "Idle"
    /\ n_complete = 1
    /\ steps = << "archive", "recall", "compose", "complete" >>

\* C16: the composed prompt ends with the time line; with nothing recalled
\* it is the base prompt and the time line only; otherwise the block between
\* header and footer has one line per recalled item, numbered 1, 2, ... in
\* the order returned, each with the item's relevance band and summary.
C16_Composition ==
    c_composed # <<>> =>
        LET n == Len(c_recalled)
            len == Len(c_composed) IN
        /\ c_composed[1].kind = "base"
        /\ c_composed[len].kind = "time"
        /\ (n = 0) => len = 2
        /\ (n > 0) =>
              /\ len = n + 4
              /\ c_composed[2].kind = "header"
              /\ c_composed[n + 3].kind = "footer"
              /\ \A i \in 1..n :
                    /\ c_composed[i + 2].kind = "line"
                    /\ c_composed[i + 2].index = i
                    /\ c_composed[i + 2].summary = c_recalled[i].summary
                    /\ c_composed[i + 2].relevance =
                          (IF c_recalled[i].distance < 3 THEN "high"
                           ELSE IF c_recalled[i].distance < 6 THEN "medium"
                           ELSE "low")

\* C16 witness: three items were composed, one of each relevance band, the
\* low one first.
C16_Witness ==
    /\ Len(c_recalled) = 3
    /\ c_recalled[1].distance = 6
    /\ c_recalled[2].distance = 2
    /\ c_recalled[3].distance = 5
    /\ Len(c_composed) = 7

\* C17: summarize_messages on a non-empty chunk returns a result, never an
\* exception; when the completion call failed the result is the fallback
\* summary, its summary is not empty, its topic is "general conversation"
\* when the chunk holds no user message, and no request beyond the failed
\* one was sent.
C17_SummarizerFallback ==
    (s_pc = "returned" /\ s_messages # <<>>) =>
        /\ s_result # Raised
        /\ DOMAIN s_result = {"summary", "topic"}
        /\ s_llm \in LlmFailures =>
              /\ s_result = fallback_summary(s_messages)
              /\ s_result.summary # ""
              /\ (\A i \in 1..Len(s_messages) : s_messages[i].role # "user")
                    => s_result.topic = "general conversation"
              /\ s_calls = 1

\* C17 witness: the completion call failed for a chunk without a user
\* message, and the fallback result was returned.
C17_Witness ==
    /\ s_pc = "returned"
    /\ Len(s_messages) = 2
    /\ \A i \in 1..Len(s_messages) : s_messages[i].role = "assistant"
    /\ s_llm = "malformed"
    /\ s_result.topic = "general conversation"

\* C20: a query returns at most top_k records of the collection, no record
\* twice, in ascending distance, each with importance at least the
\* threshold; a second query on the same collection returns the same result.
C20_QueryContract ==
    q_calls >= 1 =>
        /\ Len(q_result) <= q_top_k
        /\ \A k \in 1..Len(q_result) :
              /\ q_result[k].id \in 1..Len(q_records)
              /\ q_result[k].importance = q_records[q_result[k].id].importance
              /\ q_result[k].distance = q_records[q_result[k].id].distance
              /\ q_result[k].importance >= q_threshold
        /\ \A k \in 1..Len(q_result) : \A l \in k..Len(q_result) :
              /\ q_result[k].distance <= q_result[l].distance
              /\ (k # l) => q_result[k].id # q_result[l].id
        /\ (q_calls >= 2) => q_result = q_prev

\* C20 witness: two queries with top_k = 2 on three records, two of them at
\* the same distance, one nearer record below the threshold.
C20_Witness ==
    /\ q_calls = 2
    /\ q_top_k = 2
    /\ q_threshold = 8
    /\ Len(q_records) = 3
    /\ Len(q_result) = 2
    /\ q_result[1].distance = q_result[2].distance
    /\ \E i \in 1..3 : q_records[i].importance < 8 /\ q_records[i].distance = 1

\* C13: with two process_prompt cycles interleaved at their awaits, memory
\* enabled and no store failure, every state shows whole archivals and
\* whole commits: an entry missing from the live conversation is in a
\* stored chunk, an entry of a stored chunk is no longer in the live
\* conversation, and every user entry is followed by its reply.
C13_TurnAtomic ==
    (~Degraded /\ ~k_failed) =>
        /\ \A e \in k_committed :
              (e \notin Entries(conversation)) => e \in k_stored
        /\ \A e \in k_stored : e \notin Entries(conversation)
        /\ \A i \in 1..Len(conversation) :
              conversation[i].role = "user" =>
                  /\ i < Len(conversation)
                  /\ conversation[i + 1] =
                        AssistantEntry(conversation[i].content)

\* C28: a /memory-force entered with a store and at most six entries is
\* rejected: no worker is started, no record is created and the
\* conversation is unchanged; a worker is started only with more than six.
C28_ManualRejected ==
    [][/\ (pc = "Idle" /\ mpc = "none" /\ m_outcome' = "rejected") =>
             /\ Len(conversation) <= 6
             /\ mpc' = "none"
             /\ records' = records
             /\ conversation' = conversation
       /\ (mpc = "none" /\ mpc' = "summarizing") =>
             /\ Len(conversation) > 6
             /\ m_outcome' = "running"]_vars

\* C28 witness: a /memory-force was rejected on exactly six entries.
C28_Witness ==
    /\ m_outcome = "rejected"
    /\ Len(conversation) = 6
    /\ mpc = "none"

MessageCounts(recs) ==
    LET sum[i \in 0..Len(recs)] ==
            IF i = 0 THEN 0 ELSE sum[i - 1] + recs[i].message_count
    IN sum[Len(recs)]

\* C30: conservation of entries. In memory-enabled mode, while no store add
\* has failed (no clear exists among the operations), the live entries after
\* the system entry plus the message_count of all records number twice the
\* committed turns, and the archived entries followed by the live ones hold
\* every committed entry exactly once.
C30_Conservation ==
    (~Degraded /\ ~add_failed) =>
        LET ledger == archived \o Tail(conversation) IN
        /\ (Len(conversation) - 1) + MessageCounts(records) = 2 * commits
        /\ MessageCounts(records) = Len(archived)
        /\ \A i, j \in 1..Len(ledger) : ledger[i] = ledger[j] => i = j
        /\ \A i \in 1..Len(ledger) : ledger[i].role \in {"user", "assistant"}

\* C30 witness: committed turns, one automatic and one manual archival, no
\* store failure, and entries both live and in records.
C30_Witness ==
    /\ ~Degraded /\ ~add_failed
    /\ commits >= 3
    /\ Len(records) >= 2
    /\ m_outcome = "archived"
    /\ Len(conversation) > 1

MemoryCommands ==
    {"memory-stats", "memory-clear", "memory-search", "memory-force",
     "memory-preview"}

\* C27: a memory command entered while the app has no orchestrator or the
\* orchestrator has no store only reports that the memory system is not
\* enabled: conversation, records, the results on show and the archival
\* worker are as they were.
C27_DisabledCommands ==
    [][(command' \in MemoryCommands /\ manuals' # manuals
          /\ (~has_orchestrator \/ ~mem)) =>
             /\ m_outcome' = "disabled"
             /\ conversation' = conversation
             /\ records' = records
             /\ shown' = shown
             /\ mpc' = mpc]_vars

\* C27 witness: /memory-clear was entered in an app without orchestrator.
C27_Witness ==
    /\ command = "memory-clear"
    /\ ~has_orchestrator
    /\ m_outcome = "disabled"

\* C29: entry 0 is the system entry and holds the current system prompt,
\* also after /system changed it, and the outgoing system message is built
\* from the same prompt.
C29_EntryZeroIsPrompt ==
    /\ conversation[1].role = "system"
    /\ conversation[1].content = system_prompt
    /\ messages # <<>> => messages[1].content = system_prompt

\* C25: the importance score lies in [0,1], is exactly 0.3 for the empty
\* list, and for a non-empty list equals
\* min(1, 0.5 + min(mean_content_length/1000, 0.2)
\*           + min(message_count*0.02, 0.15)
\*           + min(distinct_lowercased_characters/50, 0.15)),
\* the distinct characters being those of the messages' contents.
C25_ScoreFormula ==
    i_called =>
        LET n == Len(i_messages)
            distinct == Cardinality({lower(c) :
                            c \in UNION {i_messages[i].chars : i \in 1..n}})
            claimed == 500 * n + Min(total_length(i_messages), 200 * n)
                           + n * Min(20 * n, 150) + n * Min(20 * distinct, 150)
        IN /\ 0 <= i_score.num /\ i_score.num <= i_score.den
           /\ n = 0 => i_score.num * 10 = 3 * i_score.den
           /\ n > 0 => /\ i_score.den = 1000 * n
                       /\ i_score.num = Min(claimed, 1000 * n)

\* C26: run invokes a handler exactly when the first part of the text is
\* '/' followed by a known command name (letter case aside, dashes mapped
\* to underscores), and then the handler of that name; every other text
\* with a part goes to handle_ai_prompt and invokes no handler.
C26_Dispatch ==
    (r_called /\ FirstPart(r_text) # <<>>) =>
        LET part == FirstPart(r_text)
            known == /\ part[1] = "/"
                     /\ handler_name(lowered(part)) \in Handlers
        IN /\ (r_result.dispatch = "handler") <=> known
           /\ known => r_result.handler = handler_name(lowered(part))
           /\ ~known => r_result.dispatch = "handle_ai_prompt"

\* C21: an add gives the new record an id no stored record has, makes the
\* store one record longer, leaves the records it held as they were, stores
\* message_count = number of source messages, and stores the scorer's value
\* when no importance was supplied, the supplied one otherwise.
C21_Add ==
    t_op = "add" =>
        LET new == t_records[Len(t_records)] IN
        /\ Len(t_records) = Len(t_before) + 1
        /\ SubSeq(t_records, 1, Len(t_before)) = t_before
        /\ \A i \in 1..Len(t_before) : t_before[i].id # new.id
        /\ t_result = new.id
        /\ new.message_count = Len(t_args.original_messages)
        /\ new.importance = IF t_args.supplied THEN SuppliedImportance
                            ELSE calculate_importance(t_args.original_messages)

\* C21 witness: an add with a supplied importance into a store that already
\* holds a record whose importance was scored.
C21_Witness ==
    /\ t_op = "add"
    /\ Len(t_before) = 1
    /\ t_args.supplied
    /\ t_records[1].importance # SuppliedImportance

\* C22: clear_all returns the number of records the store held and leaves it
\* empty; get_stats reports count 0 and no oldest or newest on an empty
\* store, and on a non-empty one the number of records with
\* oldest <= newest.
C22_ClearAndStats ==
    /\ t_op = "clear_all" => t_result = Len(t_before) /\ t_records = <<>>
    /\ t_op = "get_stats" =>
          /\ t_result.count = Len(t_records)
          /\ t_records = <<>> =>
                t_result.oldest = None /\ t_result.newest = None
          /\ t_records # <<>> =>
                /\ t_result.oldest \in Clock /\ t_result.newest \in Clock
                /\ t_result.oldest <= t_result.newest

\* C22 witness: the statistics of two records of different age.
C22_Witness ==
    /\ t_op = "get_stats"
    /\ Len(t_records) = 2
    /\ t_result.oldest < t_result.newest

\* C23: cleanup_old_memories deletes exactly the records whose timestamp is
\* before now - age, returns how many it deleted and leaves every other
\* record as it was, in place.
C23_Cleanup ==
    t_op = "cleanup" =>
        LET old(r) == r.timestamp < t_args.now - t_args.days_threshold
            young(r) == ~old(r)
        IN /\ t_records = SelectSeq(t_before, young)
           /\ t_result = Len(SelectSeq(t_before, old))
           /\ t_result = Len(t_before) - Len(t_records)

\* C23 witness: a cleanup that deletes one record and keeps one whose
\* timestamp is exactly the cutoff.
C23_Witness ==
    /\ t_op = "cleanup"
    /\ Len(t_before) = 2
    /\ t_result = 1
    /\ Len(t_records) = 1
    /\ t_records[1].timestamp = t_args.now - t_args.days_threshold

\* C24: round trip. When the store holds exactly one record, a query for
\* that record's summary with top_k = 1 returns exactly that record.
C24_RoundTrip ==
    (/\ t_op = "query"
     /\ Len(t_records) = 1
     /\ t_args.top_k = 1
     /\ t_args.query_text = t_records[1].summary) =>
        /\ Len(t_result) = 1
        /\ t_result[1].id = t_records[1].id
        /\ t_result[1].summary = t_records[1].summary

\* C24 witness: such a query right after the add that created the record.
C24_Witness ==
    /\ t_op = "query"
    /\ t_ops = 2
    /\ Len(t_records) = 1
    /\ t_args.top_k = 1
    /\ t_args.query_text = t_records[1].summary
    /\ Len(t_result) = 1

\* C32: role alternation. After the system entry no two adjacent entries
\* have the same role, none has role system, and the last entry, if there
\* is one, has role assistant.
C32_RoleAlternation ==
    LET n == Len(conversation) IN
    /\ \A i \in 2..n : conversation[i].role \in {"user", "assistant"}
    /\ \A i \in 2..(n - 1) : conversation[i].role # conversation[i + 1].role
    /\ n > 1 => conversation[n].role = "assistant"

\* C32 witness: after a truncation or an archival that cut through an
\* exchange, the entry after the system entry is a reply.
C32_Witness ==
    /\ pc = "Idle"
    /\ Len(conversation) >= 4
    /\ conversation[2].role = "assistant"
    /\ commits >= 2

\* C33: every record created by automatic or manual archival has
\* message_count >= 1 and a non-empty summary, whatever the summarizer
\* returned.
C33_RecordsWellFormed ==
    \A i \in 1..Len(records) :
        /\ records[i].message_count >= 1
        /\ records[i].summary # ""

\* C33 witness: an automatic and a manual archival have stored records, one
\* of them after the summarizer returned an empty summary.
C33_Witness ==
    /\ Len(records) >= 2
    /\ m_outcome = "archived"
    /\ \E i \in 1..Len(records) : records[i].summary = "Archived messages"

\* C34: after a store failure during automatic archival the conversation is
\* entry 0 followed by the last max_conversation - 1 entries, of length
\* exactly max_conversation; the turn goes on through recall, composition
\* and completion; and memory stays enabled.
C34_StoreFailureTruncates ==
    arch = "store_failed" =>
        LET n == Len(pre) IN
        /\ Len(post_archival) = max_conversation
        /\ post_archival[1] = pre[1]
        /\ \A i \in 2..max_conversation :
              post_archival[i] = pre[n - max_conversation + i]
        /\ memory_enabled /\ mem /\ summarizer
        /\ pc \in {"Recalling", "Composing", "AwaitingCompletion",
                    "Committing", "Idle"}
        /\ pc = "Idle" =>
              /\ outcome \in {"committed", "failed"}
              /\ SubSeq(steps, 1, 4)
                   = << "archive", "recall", "compose", "complete" >>

\* C34 witness: a turn committed after its store add failed on a
\* conversation two entries over the maximum.
C34_Witness ==
    /\ arch = "store_failed"
    /\ pc = "Idle"
    /\ outcome = "committed"
    /\ Len(pre) = max_conversation + 2

\* C35: recall never fails the turn. The store is asked with the raw user
\* input, top_k = recall_top_k and the configured importance_threshold; no
\* match or a raising query gives an empty recall; and _recall always hands
\* over to composition, so a turn fails only at the completion call.
C35_RecallNeverFails ==
    [][/\ (pc = "Recalling" /\ pc' # pc) =>
             /\ pc' = "Composing"
             /\ outcome' = "running"
             /\ ~Degraded =>
                   asked' = [query_text |-> user_input, top_k |-> recall_top_k,
                             importance_threshold |-> importance_threshold]
             /\ recall_path' \in {"degraded", "no matches", "raised"} =>
                   recalled' = <<>>
       /\ (outcome = "running" /\ outcome' = "failed") =>
             pc = "AwaitingCompletion"
       /\ (pc = "Committing" /\ pc' # pc) =>
             /\ outcome' = "committed"
             /\ Len(conversation') = Len(conversation) + 2]_vars

\* C35 witness: a turn whose recall query raised, with records in the
\* store, has composed, has its completion and is at the commit.
C35_Witness ==
    /\ recall_path = "raised"
    /\ recalled = <<>>
    /\ records # <<>>
    /\ pc = "Committing"
    /\ steps = << "archive", "recall", "compose", "complete" >>

\* C36: every started process_prompt cycle eventually returns to Idle; it
\* returns either committed, with exactly the user and the assistant entry
\* appended to the conversation archival left, or failed, with that
\* conversation as it was and no commit; and a cycle makes at most one
\* summarizer call and at most one store add.
C36_CycleTerminates ==
    /\ (pc # "Idle") ~> (pc = "Idle")
    /\ [](n_summarize <= 1 /\ n_add <= 1)
    /\ [][(pc # "Idle" /\ pc' = "Idle") =>
            \/ /\ outcome' = "committed"
               /\ commits' = commits + 1
               /\ Len(conversation') = Len(post_archival) + 2
               /\ SubSeq(conversation', 1, Len(post_archival)) = post_archival
               /\ conversation'[Len(post_archival) + 1].role = "user"
               /\ conversation'[Len(post_archival) + 2].role = "assistant"
            \/ /\ outcome' = "failed"
               /\ commits' = commits
               /\ conversation' = post_archival]_vars

\* C36 witness: a second cycle is back at Idle, committed, after an archival
\* that called the summarizer and the store once each.
C36_Witness ==
    /\ pc = "Idle"
    /\ outcome = "committed"
    /\ arch = "archived"
    /\ n_summarize = 1
    /\ n_add = 1
    /\ steps = << "archive", "recall", "compose", "complete", "commit" >>

\* C37: /memory-clear changes the stored records only when the app has a
\* store and its argument is 'confirm' in any letter case with whitespace
\* around it; with a store and any other argument, or none, the records
\* are as they were and the notice asking for confirmation is what is
\* shown; with a store and such an argument the confirmation is accepted.
C37_ClearNeedsConfirm ==
    mc_called =>
        /\ mc_records # mc_before =>
              mc_mem /\ mc_args \in Padded(ConfirmWords)
        /\ (mc_mem /\ mc_args \notin Padded(ConfirmWords)) =>
              mc_records = mc_before /\ mc_notice = "unconfirmed"
        /\ (mc_mem /\ mc_args \in Padded(ConfirmWords)) =>
              \/ mc_notice = "cleared" /\ mc_records = <<>>
              \/ mc_notice = "error" /\ mc_records = mc_before

\* C37 witness: ' \tCONFIRM\n' emptied a store of two records.
C37_Witness ==
    /\ mc_called
    /\ mc_args = << "\t", " ", "C", "O", "N", "F", "I", "R", "M", "\n" >>
    /\ Len(mc_before) = 2
    /\ mc_records = <<>>
    /\ mc_notice = "cleared"

\* C37 witness: 'confirm all' left a store of two records as it was.
C37_Witness_refused ==
    /\ mc_called
    /\ mc_args = << "c", "o", "n", "f", "i", "r", "m", " ", "a", "l", "l" >>
    /\ mc_records = mc_before
    /\ Len(mc_before) = 2
    /\ mc_notice = "unconfirmed"

\* the stripped lines of the response under study
ResponseLines ==
    LET lines == split(p_response, "\n") IN
    [i \in 1..Len(lines) |-> strip(lines[i])]

\* the last line of the response under study that starts with the label, or
\* the empty sequence when there is none
LastLabelled(label) ==
    LET at == {i \in 1..Len(ResponseLines) :
                  startswith(ResponseLines[i], label)} IN
    IF at = {} THEN <<>>
    ELSE ResponseLines[CHOOSE i \in at : \A j \in at : j <= i]

\* C38: of the lines of a response the last one starting with SUMMARY:,
\* TOPIC: and POINTS: gives the summary, the topic and the key points, the
\* key points being the non-empty trimmed items between commas; a response
\* without a SUMMARY: line is the summary as a whole; and the summary parsed
\* from a response is never empty.
C38_ParsedSummary ==
    p_called =>
        /\ p_parsed.summary =
              IF LastLabelled("SUMMARY:") = <<>> THEN strip(p_response)
              ELSE strip(replace(LastLabelled("SUMMARY:"), "SUMMARY:"))
        /\ p_parsed.topic = strip(replace(LastLabelled("TOPIC:"), "TOPIC:"))
        /\ p_parsed.key_points =
              key_points(strip(replace(LastLabelled("POINTS:"), "POINTS:")))
        /\ \A i \in 1..Len(p_parsed.key_points) :
              LET p == p_parsed.key_points[i] IN
              p # <<>> /\ p = strip(p) /\ \A k \in 1..Len(p) : p[k] # ","
        /\ p_parsed.summary # <<>>

\* the entries of the list under study that are not system entries
NotSystem == SelectSeq(f_messages, LAMBDA msg : msg.role # "system")

\* C40: the lines of the summarization prompt are the entries that are not
\* system entries, once each and in their order; a body of at most 500
\* characters is there whole and without marker, a longer one is there as
\* its first 497 characters followed by the marker, and no line's body with
\* its marker is longer than 500 characters.
C40_PromptLines ==
    f_called =>
        /\ Len(f_result) = Len(NotSystem)
        /\ \A i \in 1..Len(f_result) :
              LET line == f_result[i]
                  content == NotSystem[i].content
              IN /\ line.role = upper(NotSystem[i].role)
                 /\ line.role # "SYSTEM"
                 /\ line.content.body.text = content.text
                 /\ content.len <= 500 =>
                       line.content = [body |-> content, marker |-> FALSE]
                 /\ content.len > 500 =>
                       /\ line.content.body.len = 497
                       /\ line.content.marker
                 /\ line.content.body.len
                       + (IF line.content.marker THEN MarkerLength ELSE 0)
                          <= 500

\* C40 witness: of a system entry and a user entry of 501 characters the
\* prompt has one line, the user's first 497 characters and the marker.
C40_Witness ==
    /\ f_called
    /\ Len(f_messages) = 2
    /\ f_messages[1].role = "system"
    /\ f_messages[2] = [role |-> "user", content |-> [text |-> "t", len |-> 501]]
    /\ f_result = << [role |-> "USER",
                      content |-> [body |-> [text |-> "t", len |-> 497],
                                   marker |-> TRUE]] >>

\* the memory block among the parts of a text: its header, lines and footer
MemoryBlock(parts) ==
    SelectSeq(parts, LAMBDA p : p.kind \in {"header", "line", "footer"})

\* C39: the memory block /memory-preview shows for a recalled list is the
\* block composition puts into the system message for the same list: the
\* same lines in the same order, each with the same index, relevance band
\* and summary, and no block in either for an empty list.
C39_PreviewIsComposition ==
    (v_preview # <<>> /\ v_composed # <<>>) =>
        /\ MemoryBlock(v_preview) = MemoryBlock(v_composed)
        /\ v_recalled = <<>> <=> MemoryBlock(v_preview) = <<>>
        /\ Len(MemoryBlock(v_preview)) \in {0, Len(v_recalled) + 2}

\* C39 witness: a list of three items, one in each band, was previewed and
\* composed.
C39_Witness ==
    /\ v_preview # <<>>
    /\ v_composed # <<>>
    /\ Len(v_recalled) = 3
    /\ {MemoryBlock(v_preview)[i].relevance : i \in 2..4}
          = {"high", "medium", "low"}

\* C31: with a process_prompt call running beside the /memory-force worker,
\* every entry the worker takes out of the live conversation is one it
\* summarized and stored, no entry is in the chunks of two records, and the
\* entries the call committed are in the live conversation once both are
\* through.
C31_WorkerBesideTurn ==
    /\ w_pc = "done" => w_removed \subseteq Entries(w_chunk)
    /\ \A i, j \in 1..Len(w_records) :
          i # j => Entries(w_records[i].chunk) \cap Entries(w_records[j].chunk) = {}
    /\ (w_pc \in {"done", "failed"} /\ w_tpc = "Committed") =>
          w_committed \subseteq Entries(Live)

====
